---- MODULE Spec2Model ----
(***************************************************************************)
(* Weather-fetch resilience layer of the weather-api repository:           *)
(*   - RaceFetch (internal/weather, MainConcurrentFetcher): one goroutine  *)
(*     per provider, a buffered result channel, first success wins;        *)
(*   - CachingFetcher.FetchCurrent: Redis read-through / write-through     *)
(*     decorator around an inner Fetcher.                                  *)
(* Texts (error messages, JSON blobs) are sequences of tokens.             *)
(***************************************************************************)
EXTENDS Integers, Sequences, FiniteSets, TLC

VARIABLES
    \* ---- one RaceFetch call ----
    fetchers,      \* the []Fetcher argument: a sequence of provider behaviours
    parentDone,    \* the caller's ctx is cancelled / past its deadline
    ctxCreated,    \* context.WithCancel(ctx) has run (line 44)
    cancelCalled,  \* the call's cancel() has been invoked (line 75 or the defer)
    ch,            \* the buffered channel of results, FIFO
    chCap,         \* its capacity
    task,          \* goroutine of provider i: "unlaunched" | "running" | "sending" | "exited"
    tres,          \* what provider i's FetchCurrent returned in that goroutine
    launched,      \* number of go statements executed (the range loop of line 54)
    rpc,           \* position of RaceFetch: "start" | "launch" | "collect" | "won" | "done"
    received,      \* number of results RaceFetch has received from ch
    winner,        \* the nil-error result held between line 74 and line 81
    errs,          \* the errs slice
    ret,           \* what RaceFetch returned
    arrival,       \* history: provider indices in the order their results entered ch
    calls,         \* history: number of FetchCurrent invocations per provider
    rcity,         \* the city argument of RaceFetch
    args,          \* history: the (ctx, city) pairs provider i's FetchCurrent was invoked with
    \* ---- the Redis cache and the CachingFetcher.FetchCurrent calls ----
    cache,         \* Redis: key -> entry [raw, exp] or NoEntry
    now,           \* the clock, in minutes
    cpc,           \* position of call c: "off" | "idle" | "get" | "inner" | "store" | "done"
    ccity,         \* its city argument
    craw,          \* the raw value its GET returned (empty unless err == nil)
    cheld,         \* history: Redis held a live, decodable entry under its key at its GET
    cbad,          \* history: Redis held a live entry that does not decode under its key at its GET
    cgot,          \* history: how its GET ended: "none" | "hit" | "corrupt" | "nil" | "err"
    cw,            \* what its inner fetcher returned
    cret,          \* what the call returned
    cinner,        \* history: number of times it invoked the inner fetcher
    cwrote,        \* history: the SETs it issued that Redis applied, with their minute
    \* ---- one BuildCachingFetcher call ----
    cfg,           \* the *config.Config argument: the two provider API keys
    redisUp,       \* the Redis at cfg.RedisAddr answers a PING
    bpc,           \* position of BuildCachingFetcher: "owm" | "wap" | "check" | "ping" | "done"
    bfetchers,     \* the fetchers slice: names of the provider clients built
    berrs,         \* the errs slice
    bret,          \* what BuildCachingFetcher returned
    \* ---- the subscriptions table, the API service and the scheduler ----
    subs,          \* the table: id -> row, or NoRow where there is none
    nextId,        \* the SERIAL sequence: number of rows inserted so far
    clock,         \* wall clock [h, m, s], in steps of 30 seconds
    elapsed,       \* number of steps the clock has made
    spc,           \* position of the cron job: "wait" | "hourly" | "hsend" | "daily" | "dsend"
    batch,         \* ids the last batch query returned to the job of this minute
    updated,       \* ids whose weather update was handed to SMTP by the job of this minute
    confAt,        \* history: the clock at which each row in the table was confirmed
    sret,          \* the last call on the SubscriptionService and what it returned
    \* ---- one FetchCurrent call on each of the two provider clients ----
    presp,         \* what http.DefaultClient.Do returned to it
    pout,          \* what its FetchCurrent returned
    \* ---- the cron job over whole periods ----
    lastSel,       \* history: the tick at which a batch query last returned row i, or -1
    dbFailed,      \* history: a batch query has failed
    \* ---- one sendWeatherUpdates call ----
    ubatch,        \* the subs argument: a sequence of subscriptions
    upc,           \* position of sendWeatherUpdates: "off" | "start" | "loop" | "done"
    upos,          \* number of subscriptions the range loop has passed
    ufetched,      \* history: what FetchCurrent returned for each of them
    umsgs,         \* the messages slice
    ucalls,        \* history: the arguments of the SendBatch calls made
    \* ---- one SMTPSender.SendBatch call ----
    mport,         \* s.port
    mbatch,        \* the messages argument
    mpc,           \* position of SendBatch: "off" | "dial" | "newclient" | "ext" | "starttls" |
                   \*   "auth" | "reset" | "mail" | "rcpt" | "data" | "write" | "close" | "quit" | "done"
    mi,            \* index of the message the range loop is at
    mj,            \* number of its recipients passed to RCPT TO
    mlog,          \* history: the calls made on the connection and the client, in order
    msent,         \* history: indices of the messages whose DATA was written and closed
    mpend,         \* the named result err as the return statement set it, before the defer
    mret,          \* what SendBatch returned
    \* ---- one request to the API ----
    hresp          \* the response in the gin.Context when the handler has returned

raceVars == <<fetchers, parentDone, ctxCreated, cancelCalled, ch, chCap, task, tres,
              launched, rpc, received, winner, errs, ret, arrival, calls, rcity, args>>

cacheVars == <<cache, now, cpc, ccity, craw, cheld, cbad, cgot, cw, cret, cinner, cwrote>>

buildVars == <<cfg, redisUp, bpc, bfetchers, berrs, bret>>

subVars == <<subs, nextId, clock, elapsed, spc, batch, updated, confAt, sret>>

provVars == <<presp, pout>>

\* the scheduler over whole periods
tickVars == <<lastSel, dbFailed>>

updVars == <<ubatch, upc, upos, ufetched, umsgs, ucalls>>

smtpVars == <<mport, mbatch, mpc, mi, mj, mlog, msent, mpend, mret>>

httpVars == <<hresp>>

sideVars == <<tickVars, updVars, smtpVars, httpVars>>

vars == <<raceVars, cacheVars, buildVars, subVars, provVars, sideVars>>

\* ---------------------------------------------------------------- bounds
MaxProviders == 3

\* ---------------------------------------------------------------- values
\* types.Weather; Temp is written as its shortest decimal text
ZeroWeather == [temp |-> "0", humidity |-> 0, desc |-> ""]

\* readings a provider can produce
Readings == { [temp |-> "18.5", humidity |-> 59, desc |-> "Partly cloudy"],
              [temp |-> "-3", humidity |-> 80, desc |-> "Snow"] }

\* a nil error
Nil == <<>>

\* city arguments of a RaceFetch call
RaceCities == {"Kyiv", "London"}

\* the contexts in RaceFetch: the one the caller passed in, and the child that
\* context.WithCancel made of it, which the name ctx denotes from line 44 on
CallerCtx == "caller"

DerivedCtx == "derived"

\* failure messages of the providers (transport failure, non-2xx status, decoding,
\* missing data), one per position in the fetchers slice
FailMsgs == << <<"timeout">>, <<"unexpected status 404 Not Found">>,
               <<"JSON decode error">>, <<"no weather data in response">>,
               <<"unexpected status 500 Internal Server Error">> >>

\* the error a provider returns when it abandons its HTTP call on ctx.Done()
CtxCanceled == <<"context canceled">>

NoResult == [w |-> ZeroWeather, err |-> <<"none">>]

\* Behaviours of a Fetcher handed to RaceFetch:
\*   ok    - its HTTP call yields a reading
\*   fail  - its HTTP call yields a failure
\*   hang  - it blocks until its ctx is done, then returns the ctx error
\*   never - it ignores its ctx and never returns
Providers(i) ==
    [kind : {"ok"}, w : Readings, msg : {Nil}]
    \cup [kind : {"fail"}, w : {ZeroWeather}, msg : {FailMsgs[i]}]
    \cup [kind : {"hang", "never"}, w : {ZeroWeather}, msg : {CtxCanceled}]

N == Len(fetchers)

\* mutant: the per-call context is made from context.Background()
CtxDoneDetached == ctxCreated /\ cancelCalled

\* ctx.Done() of the derived context is closed
CtxDone == ctxCreated /\ (cancelCalled \/ parentDone)

\* ---------------------------------------------------------------- texts
RECURSIVE Join(_, _)
\* strings.Join(elems, sep)
Join(elems, sep) ==
    IF Len(elems) = 0 THEN <<>>
    ELSE IF Len(elems) = 1 THEN Head(elems)
    ELSE Head(elems) \o sep \o Join(Tail(elems), sep)

\* mutant: the failure messages joined in slice order instead of arrival order
AggErrorSliceOrder(es) ==
    <<"all providers failed: ">> \o Join([i \in 1..Len(es) |-> tres[i].err], <<"; ">>)

\* mutant: a lone failure handed back as it came, without the aggregate prefix
AggErrorBareSingle(es) ==
    IF Len(es) = 1 THEN es[1] ELSE <<"all providers failed: ">> \o Join(es, <<"; ">>)

\* fmt.Errorf("all providers failed: %s", strings.Join(errs, "; "))
AggError(es) == <<"all providers failed: ">> \o Join(es, <<"; ">>)

NoProvidersError == <<"no weather providers configured">>

\* mutant: a channel with room for a single result
ChanCapOne(n) == 1

\* make(chan result, len(fetchers))
ChanCap(n) == n

\* ---------------------------------------------------------------- RaceFetch
RaceInit ==
    /\ fetchers \in UNION { { f \in [1..n -> UNION { Providers(i) : i \in 1..n }] :
                                  \A i \in 1..n : f[i] \in Providers(i) } :
                              n \in 0..MaxProviders }
    /\ parentDone = FALSE
    /\ ctxCreated = FALSE
    /\ cancelCalled = FALSE
    /\ ch = <<>>
    /\ chCap = 0
    /\ task = [i \in 1..N |-> "unlaunched"]
    /\ tres = [i \in 1..N |-> NoResult]
    /\ launched = 0
    /\ rpc = "start"
    /\ received = 0
    /\ winner = NoResult
    /\ errs = <<>>
    /\ ret = NoResult
    /\ arrival = <<>>
    /\ calls = [i \in 1..N |-> 0]
    /\ rcity \in RaceCities
    /\ args = [i \in 1..N |-> {}]

\* mutant: the len(fetchers) == 0 check is missing
RaceEnterNoEmptyCheck ==
    /\ rpc = "start"
    /\ ctxCreated' = TRUE
    /\ chCap' = ChanCap(N)
    /\ rpc' = "launch"
    /\ UNCHANGED <<fetchers, rcity, parentDone, cancelCalled, ch, task, tres, launched,
                   received, winner, errs, ret, arrival, calls,
                   args, cacheVars, buildVars, subVars, provVars, sideVars>>

\* lines 37-51: the empty check, the derived context, the channel
RaceEnter ==
    /\ rpc = "start"
    /\ IF N = 0
       THEN /\ ret' = [w |-> ZeroWeather, err |-> NoProvidersError]
            /\ rpc' = "done"
            /\ UNCHANGED <<ctxCreated, chCap>>
       ELSE /\ ctxCreated' = TRUE
            /\ chCap' = ChanCap(N)
            /\ rpc' = "launch"
            /\ UNCHANGED ret
    /\ UNCHANGED <<fetchers, rcity, parentDone, cancelCalled, ch, task, tres, launched,
                   received, winner, errs, arrival, calls,
                   args, cacheVars, buildVars, subVars, provVars, sideVars>>

\* mutant: the goroutines are handed the caller's ctx, not the derived one
RaceLaunchCallerCtx ==
    /\ rpc = "launch"
    /\ IF launched < N
       THEN /\ launched' = launched + 1
            /\ task' = [task EXCEPT ![launched + 1] = "running"]
            /\ calls' = [calls EXCEPT ![launched + 1] = @ + 1]
            /\ args' = [args EXCEPT ![launched + 1] =
                                @ \cup {[ctx |-> CallerCtx, city |-> rcity]}]
            /\ UNCHANGED rpc
       ELSE /\ rpc' = "collect"
            /\ UNCHANGED <<launched, task, calls, args>>
    /\ UNCHANGED <<fetchers, rcity, parentDone, ctxCreated, cancelCalled, ch, chCap, tres,
                   received, winner, errs, ret, arrival,
                   cacheVars, buildVars, subVars, provVars, sideVars>>

\* lines 54-68: one go statement per fetcher, in slice order
RaceLaunch ==
    /\ rpc = "launch"
    /\ IF launched < N
       THEN /\ launched' = launched + 1
            /\ task' = [task EXCEPT ![launched + 1] = "running"]
            /\ calls' = [calls EXCEPT ![launched + 1] = @ + 1]
            /\ args' = [args EXCEPT ![launched + 1] =
                                @ \cup {[ctx |-> DerivedCtx, city |-> rcity]}]
            /\ UNCHANGED rpc
       ELSE /\ rpc' = "collect"
            /\ UNCHANGED <<launched, task, calls, args>>
    /\ UNCHANGED <<fetchers, rcity, parentDone, ctxCreated, cancelCalled, ch, chCap, tres,
                   received, winner, errs, ret, arrival,
                   cacheVars, buildVars, subVars, provVars, sideVars>>

\* line 56: f.FetchCurrent(ctx, city) returns in goroutine i.  A call whose ctx is
\* done may be abandoned with the ctx error whatever the provider would have said.
ProviderReturn(i) ==
    /\ task[i] = "running"
    /\ \E r \in
          (IF fetchers[i].kind = "ok" THEN {[w |-> fetchers[i].w, err |-> Nil]} ELSE {})
          \cup (IF fetchers[i].kind = "fail"
                THEN {[w |-> ZeroWeather, err |-> fetchers[i].msg]} ELSE {})
          \cup (IF CtxDone /\ fetchers[i].kind # "never"
                THEN {[w |-> ZeroWeather, err |-> CtxCanceled]} ELSE {}) :
          tres' = [tres EXCEPT ![i] = r]
    /\ task' = [task EXCEPT ![i] = "sending"]
    /\ UNCHANGED <<fetchers, rcity, parentDone, ctxCreated, cancelCalled, ch, chCap, launched,
                   rpc, received, winner, errs, ret, arrival, calls,
                   args, cacheVars, buildVars, subVars, provVars, sideVars>>

\* line 66: ch <- result{w, err}; a send on a full buffered channel blocks
TaskSend(i) ==
    /\ task[i] = "sending"
    /\ Len(ch) < chCap
    /\ ch' = Append(ch, tres[i])
    /\ arrival' = Append(arrival, i)
    /\ task' = [task EXCEPT ![i] = "exited"]
    /\ UNCHANGED <<fetchers, rcity, parentDone, ctxCreated, cancelCalled, chCap, tres, launched,
                   rpc, received, winner, errs, ret, calls,
                   args, cacheVars, buildVars, subVars, provVars, sideVars>>

\* mutant: the first failure received ends the call
RaceRecvFailFast ==
    /\ rpc = "collect"
    /\ received < N
    /\ Len(ch) > 0
    /\ ch' = Tail(ch)
    /\ received' = received + 1
    /\ IF Head(ch).err = Nil
       THEN /\ cancelCalled' = TRUE
            /\ winner' = Head(ch)
            /\ rpc' = "won"
            /\ UNCHANGED <<errs, ret>>
       ELSE /\ errs' = Append(errs, Head(ch).err)
            /\ ret' = [w |-> ZeroWeather, err |-> Head(ch).err]
            /\ cancelCalled' = TRUE
            /\ rpc' = "done"
            /\ UNCHANGED winner
    /\ UNCHANGED <<fetchers, rcity, parentDone, ctxCreated, chCap, task, tres, launched,
                   arrival, calls,
                   args, cacheVars, buildVars, subVars, provVars, sideVars>>

\* mutant: no cancel() on the winning branch, only the deferred one
RaceRecvNoCancel ==
    /\ rpc = "collect"
    /\ received < N
    /\ Len(ch) > 0
    /\ ch' = Tail(ch)
    /\ received' = received + 1
    /\ IF Head(ch).err = Nil
       THEN /\ winner' = Head(ch)
            /\ rpc' = "won"
            /\ UNCHANGED errs
       ELSE /\ errs' = Append(errs, Head(ch).err)
            /\ UNCHANGED <<winner, rpc>>
    /\ UNCHANGED <<fetchers, rcity, parentDone, ctxCreated, cancelCalled, chCap, task, tres,
                   launched, ret, arrival, calls,
                   args, cacheVars, buildVars, subVars, provVars, sideVars>>

\* mutant: cancel() on every result received, not only on a success
RaceRecvCancelAlways ==
    /\ rpc = "collect"
    /\ received < N
    /\ Len(ch) > 0
    /\ ch' = Tail(ch)
    /\ received' = received + 1
    /\ cancelCalled' = TRUE
    /\ IF Head(ch).err = Nil
       THEN /\ winner' = Head(ch)
            /\ rpc' = "won"
            /\ UNCHANGED errs
       ELSE /\ errs' = Append(errs, Head(ch).err)
            /\ UNCHANGED <<winner, rpc>>
    /\ UNCHANGED <<fetchers, rcity, parentDone, ctxCreated, chCap, task, tres, launched,
                   ret, arrival, calls,
                   args, cacheVars, buildVars, subVars, provVars, sideVars>>

\* mutant: the loop keeps receiving after a winner, until all N results are in
RaceRecvDrain ==
    /\ rpc = "collect"
    /\ received < N
    /\ Len(ch) > 0
    /\ ch' = Tail(ch)
    /\ received' = received + 1
    /\ IF Head(ch).err = Nil /\ winner = NoResult
       THEN /\ cancelCalled' = TRUE
            /\ winner' = Head(ch)
            /\ UNCHANGED errs
       ELSE /\ errs' = IF winner = NoResult THEN Append(errs, Head(ch).err) ELSE errs
            /\ UNCHANGED <<cancelCalled, winner>>
    /\ rpc' = IF received' = N /\ winner' # NoResult THEN "won" ELSE "collect"
    /\ UNCHANGED <<fetchers, rcity, parentDone, ctxCreated, chCap, task, tres, launched,
                   ret, arrival, calls,
                   args, cacheVars, buildVars, subVars, provVars, sideVars>>

\* mutant: the receive takes the result that entered the channel last
RaceRecvNewest ==
    /\ rpc = "collect"
    /\ received < N
    /\ Len(ch) > 0
    /\ ch' = SubSeq(ch, 1, Len(ch) - 1)
    /\ received' = received + 1
    /\ IF ch[Len(ch)].err = Nil
       THEN /\ cancelCalled' = TRUE
            /\ winner' = ch[Len(ch)]
            /\ rpc' = "won"
            /\ UNCHANGED errs
       ELSE /\ errs' = Append(errs, ch[Len(ch)].err)
            /\ UNCHANGED <<cancelCalled, winner, rpc>>
    /\ UNCHANGED <<fetchers, rcity, parentDone, ctxCreated, chCap, task, tres, launched,
                   ret, arrival, calls,
                   args, cacheVars, buildVars, subVars, provVars, sideVars>>

\* lines 72-83: one iteration of the collecting loop
RaceRecv ==
    /\ rpc = "collect"
    /\ received < N
    /\ Len(ch) > 0
    /\ ch' = Tail(ch)
    /\ received' = received + 1
    /\ IF Head(ch).err = Nil
       THEN /\ cancelCalled' = TRUE
            /\ winner' = Head(ch)
            /\ rpc' = "won"
            /\ UNCHANGED errs
       ELSE /\ errs' = Append(errs, Head(ch).err)
            /\ UNCHANGED <<cancelCalled, winner, rpc>>
    /\ UNCHANGED <<fetchers, rcity, parentDone, ctxCreated, chCap, task, tres, launched,
                   ret, arrival, calls,
                   args, cacheVars, buildVars, subVars, provVars, sideVars>>

\* mutant: the zero Weather returned in place of the winner's
RaceReturnWinnerZero ==
    /\ rpc = "won"
    /\ ret' = [w |-> ZeroWeather, err |-> Nil]
    /\ cancelCalled' = TRUE
    /\ rpc' = "done"
    /\ UNCHANGED <<fetchers, rcity, parentDone, ctxCreated, ch, chCap, task, tres, launched,
                   received, winner, errs, arrival, calls,
                   args, cacheVars, buildVars, subVars, provVars, sideVars>>

\* line 81: return r.w, nil (and the deferred cancel)
RaceReturnWinner ==
    /\ rpc = "won"
    /\ ret' = [w |-> winner.w, err |-> Nil]
    /\ cancelCalled' = TRUE
    /\ rpc' = "done"
    /\ UNCHANGED <<fetchers, rcity, parentDone, ctxCreated, ch, chCap, task, tres, launched,
                   received, winner, errs, arrival, calls,
                   args, cacheVars, buildVars, subVars, provVars, sideVars>>

\* mutant: the wait for results is given up when the caller's ctx is done
RaceReturnAllFailedOrCancelled ==
    /\ rpc = "collect"
    /\ received = N \/ (parentDone /\ Len(ch) = 0)
    /\ ret' = [w |-> ZeroWeather, err |-> AggError(errs)]
    /\ cancelCalled' = TRUE
    /\ rpc' = "done"
    /\ UNCHANGED <<fetchers, rcity, parentDone, ctxCreated, cancelCalled, ch, chCap, task, tres, launched,
                   received, winner, errs, arrival, calls,
                   args, cacheVars, buildVars, subVars, provVars, sideVars>>

\* lines 86-89: the loop ended without a winner (and the deferred cancel)
RaceReturnAllFailed ==
    /\ rpc = "collect"
    /\ received = N
    /\ ret' = [w |-> ZeroWeather, err |-> AggError(errs)]
    /\ cancelCalled' = TRUE
    /\ rpc' = "done"
    /\ UNCHANGED <<fetchers, rcity, parentDone, ctxCreated, ch, chCap, task, tres, launched,
                   received, winner, errs, arrival, calls,
                   args, cacheVars, buildVars, subVars, provVars, sideVars>>

\* the caller cancels the ctx it passed in, or its deadline passes
CallerCancel ==
    /\ ~parentDone
    /\ rpc # "done"
    /\ parentDone' = TRUE
    /\ UNCHANGED <<fetchers, rcity, ctxCreated, cancelCalled, ch, chCap, task, tres, launched,
                   rpc, received, winner, errs, ret, arrival, calls,
                   args, cacheVars, buildVars, subVars, provVars, sideVars>>

RaceNext ==
    \/ RaceEnter
    \/ RaceLaunch
    \/ \E i \in 1..N : ProviderReturn(i)
    \/ \E i \in 1..N : TaskSend(i)
    \/ RaceRecv
    \/ RaceReturnWinner
    \/ RaceReturnAllFailed
    \/ CallerCancel


\* ---------------------------------------------------------------- RaceFetch: properties
\* goroutine i's FetchCurrent has returned
Returned(i) == task[i] \in {"sending", "exited"}

Succeeded(i) == Returned(i) /\ tres[i].err = Nil

Failed(i) == Returned(i) /\ tres[i].err # Nil

RaceReturned == rpc = "done"

\* a success has been received from the channel
WinnerReceived == winner # NoResult

\* the failure messages of the providers in the order their results entered the
\* channel, "; " between them
ArrivalText ==
    [k \in 1..(2 * Len(arrival) - 1) |->
        IF k % 2 = 1 THEN tres[arrival[(k + 1) \div 2]].err[1] ELSE "; "]

\* C1: when exactly one provider succeeds and every other one fails or hangs until
\* the signal fires, RaceFetch returns that provider's reading with a nil error,
\* whatever the arrival order of the results.
C1_RaceCorrectness ==
    (RaceReturned /\ N >= 1) =>
        \A i \in 1..N :
            ( /\ fetchers[i].kind = "ok"
              /\ ~Failed(i)
              /\ \A j \in 1..N \ {i} : fetchers[j].kind \in {"fail", "hang"} )
            => ret = [w |-> fetchers[i].w, err |-> Nil]

\* a failure arrived first, then the only success; the hanging provider came back
\* with the ctx error after the cancel
C1_Witness ==
    /\ RaceReturned /\ N = 3
    /\ fetchers[1].kind = "hang" /\ fetchers[2].kind = "fail" /\ fetchers[3].kind = "ok"
    /\ arrival = <<2, 3, 1>>
    /\ tres[1].err = CtxCanceled
    /\ ret = [w |-> fetchers[3].w, err |-> Nil]

\* C2: when all N providers return failures, RaceFetch returns an error whose text
\* is "all providers failed: " followed by every provider's failure message in the
\* order the failures arrived on the channel, "; " between them.
C2_AllFailAggregation ==
    (RaceReturned /\ N >= 1 /\ \A i \in 1..N : Failed(i)) =>
        /\ Len(arrival) = N
        /\ ret = [w |-> ZeroWeather,
                  err |-> <<"all providers failed: ">> \o ArrivalText]

\* three failures that arrived in an order other than the order of the slice
C2_Witness ==
    /\ RaceReturned /\ N = 3
    /\ \A i \in 1..N : Failed(i) /\ fetchers[i].kind = "fail"
    /\ arrival = <<3, 1, 2>>
    /\ ret.err = <<"all providers failed: ", FailMsgs[3][1], "; ", FailMsgs[1][1],
                   "; ", FailMsgs[2][1]>>

\* C3: with an empty provider set RaceFetch returns the 'no weather providers
\* configured' error, and never creates the derived context or the channel,
\* launches a goroutine or calls a provider.
C3_ZeroProviders ==
    (N = 0) =>
        /\ rpc \in {"start", "done"}
        /\ ~ctxCreated /\ ~cancelCalled
        /\ chCap = 0 /\ ch = <<>> /\ launched = 0 /\ arrival = <<>>
        /\ RaceReturned =>
              ret = [w |-> ZeroWeather, err |-> <<"no weather providers configured">>]

C3_Witness == N = 0 /\ RaceReturned /\ ret.err = NoProvidersError

\* C4: whenever RaceFetch returns a success, the call's cancel has been invoked by
\* the moment of the return, so the derived context of every goroutine still in
\* flight is done.
C4_CancelBeforeSuccessReturn ==
    (rpc = "won" \/ (RaceReturned /\ N >= 1 /\ ret.err = Nil)) =>
        cancelCalled /\ CtxDone

\* the success is about to be returned while another provider is still in its call
C4_Witness ==
    /\ rpc = "won" /\ cancelCalled /\ ~parentDone
    /\ \E i \in 1..N : task[i] = "running" /\ fetchers[i].kind = "hang"

C6_DrainsAllBeforeReturn ==
    (RaceReturned /\ N >= 1) => received = N

\* C6 amended: RaceFetch has received all N results when it returns the aggregate
\* error; when it returns a success, the last result it received is the first
\* success that arrived, and whatever arrived after it stays unread in the channel.
C6_DrainsOnlyOnFailure ==
    (RaceReturned /\ N >= 1) =>
        /\ received \in 1..N
        /\ received <= Len(arrival)
        /\ Len(ch) = Len(arrival) - received
        /\ ret.err # Nil => (received = N /\ ch = <<>>)
        /\ ret.err = Nil =>
              /\ tres[arrival[received]].err = Nil
              /\ \A k \in 1..(received - 1) : tres[arrival[k]].err # Nil

\* a success returned with results of the losers left unread in the channel
C6_Witness ==
    /\ RaceReturned /\ N = 3 /\ ret.err = Nil
    /\ received = 1 /\ Len(ch) = 2

\* C7: over a non-empty provider set RaceFetch returns an error if and only if
\* every provider has reported a failure in the call; once a success has been
\* received, that success is what the call returns.
C7_ErrorIffAllFailed ==
    (RaceReturned /\ N >= 1) =>
        /\ (ret.err # Nil) <=> (\A i \in 1..N : Failed(i))
        /\ WinnerReceived => ret = [w |-> winner.w, err |-> Nil]
        /\ ret.err = Nil => \E i \in 1..N : Succeeded(i) /\ ret.w = tres[i].w

\* failures were received and recovered: the call returned the success
C7_Witness ==
    /\ RaceReturned /\ N = 3 /\ ret.err = Nil
    /\ Len(errs) = 2

\* C8 as claimed: with a single provider the result of RaceFetch is the provider's
\* own result, reading and error alike.
C8_SinglePassThrough ==
    (RaceReturned /\ N = 1) => ret = tres[1]

\* C8 amended: with a single provider a success is returned unchanged, and a
\* failure is returned as the aggregate error "all providers failed: " followed by
\* the provider's message, with the zero reading.
C8_SingleSuccessUnchangedFailureWrapped ==
    (RaceReturned /\ N = 1) =>
        /\ Returned(1)
        /\ tres[1].err = Nil => ret = tres[1]
        /\ tres[1].err # Nil =>
              ret = [w |-> ZeroWeather,
                     err |-> <<"all providers failed: ">> \o tres[1].err]

C8_Witness ==
    /\ RaceReturned /\ N = 1 /\ fetchers[1].kind = "fail"
    /\ ret.err = <<"all providers failed: ", "timeout">>

\* C9: no goroutine ever blocks on its send: whenever one is at ch <- result the
\* channel has room, also after RaceFetch has returned; and no goroutine sends twice.
C9_SendNeverBlocks ==
    /\ Len(ch) <= chCap
    /\ \A i \in 1..N : task[i] = "sending" => Len(ch) < chCap
    /\ \A i \in 1..N :
          Cardinality({k \in 1..Len(arrival) : arrival[k] = i})
              = (IF task[i] = "exited" THEN 1 ELSE 0)

\* RaceFetch has returned, unread results sit in the channel, one more is on its way
C9_Witness ==
    /\ RaceReturned /\ N = 3 /\ Len(ch) = 1
    /\ \E i \in 1..N : task[i] = "sending"
    /\ \E i \in 1..N : task[i] = "exited" /\ arrival[Len(arrival)] = i /\ received < Len(arrival)

\* ---------------------------------------------------------------- the cache: values
\* number of concurrent FetchCurrent calls
MaxCalls == 2

\* 5*time.Minute, in minutes
TTL == 5

\* the instants at which the clock is looked at: the first two minutes, and the
\* minute in which an entry written in the first expires while one written in the
\* second is still live
Instants == {0, 1, TTL}

Cities == {"London", "london"}

\* mutant: the city is folded to lower case before the key is built
KeyFolded(city) == <<"weather:", IF city = "London" THEN "london" ELSE city>>

\* key := "weather:" + city
Key(city) == <<"weather:", city>>

Keys == { Key(x) : x \in Cities }

NoEntry == [raw |-> <<>>, exp |-> 0]

\* a Weather whose Temp is NaN, which encoding/json refuses to encode
NaNWeather == [temp |-> "NaN", humidity |-> 10, desc |-> "Fog"]

\* strconv for the humidities in use
Itoa(n) == CASE n = 0 -> "0" [] n = 10 -> "10" [] n = 59 -> "59" [] n = 80 -> "80"

IntTexts == {"0", "10", "59", "80"}

Atoi(t) == CHOOSE n \in {0, 10, 59, 80} : Itoa(n) = t

NumTexts == IntTexts \cup {"18.5", "-3"}

\* mutant: the Temp field is written under the name "temperature", which
\* Unmarshal does not read back
MarshalTemperatureTag(w) ==
    IF w.temp = "NaN"
    THEN [ok |-> FALSE, blob |-> <<>>]
    ELSE [ok |-> TRUE,
          blob |-> <<"{", "temperature", w.temp, "humidity", Itoa(w.humidity),
                     "description", w.desc, "}">>]

\* json.Marshal(w) with the struct tags temp, humidity, description
Marshal(w) ==
    IF w.temp = "NaN"
    THEN [ok |-> FALSE, blob |-> <<>>]
    ELSE [ok |-> TRUE,
          blob |-> <<"{", "temp", w.temp, "humidity", Itoa(w.humidity),
                     "description", w.desc, "}">>]

RECURSIVE DecodeFields(_, _, _)
\* the members of a JSON object from position k on, stored into w: a number where
\* the field wants one, unknown members skipped
DecodeFields(raw, k, w) ==
    IF k >= Len(raw) THEN [ok |-> TRUE, w |-> w]
    ELSE CASE raw[k] = "temp" ->
                 IF raw[k + 1] \in NumTexts
                 THEN DecodeFields(raw, k + 2, [w EXCEPT !.temp = raw[k + 1]])
                 ELSE [ok |-> FALSE, w |-> w]
           [] raw[k] = "humidity" ->
                 IF raw[k + 1] \in IntTexts
                 THEN DecodeFields(raw, k + 2, [w EXCEPT !.humidity = Atoi(raw[k + 1])])
                 ELSE [ok |-> FALSE, w |-> w]
           [] raw[k] = "description" ->
                 IF raw[k + 1] \notin NumTexts
                 THEN DecodeFields(raw, k + 2, [w EXCEPT !.desc = raw[k + 1]])
                 ELSE [ok |-> FALSE, w |-> w]
           [] OTHER -> DecodeFields(raw, k + 2, w)

\* mutant: the description member is not decoded
UnmarshalDropsDescription(raw) ==
    IF Len(raw) >= 2 /\ raw[1] = "{" /\ raw[Len(raw)] = "}" /\ Len(raw) % 2 = 0
    THEN [ok |-> DecodeFields(raw, 2, ZeroWeather).ok,
          w |-> [DecodeFields(raw, 2, ZeroWeather).w EXCEPT !.desc = ""]]
    ELSE [ok |-> FALSE, w |-> ZeroWeather]

\* json.Unmarshal([]byte(raw), &w) into a zero Weather
Unmarshal(raw) ==
    IF Len(raw) >= 2 /\ raw[1] = "{" /\ raw[Len(raw)] = "}" /\ Len(raw) % 2 = 0
    THEN DecodeFields(raw, 2, ZeroWeather)
    ELSE [ok |-> FALSE, w |-> ZeroWeather]

\* values Redis can hold under a key before the first call: what this program
\* writes, an object lacking fields, and two that do not decode
StoredValues ==
    { Marshal(r).blob : r \in Readings }
    \cup { <<"{", "humidity", "59", "}">>,
           <<"{", "temp", "warm", "}">>,
           <<"not json">> }

\* what the inner Fetcher (the race fetcher, or any other) can return
InnerResults ==
    { [w |-> r, err |-> Nil] : r \in Readings \cup {NaNWeather} }
    \cup { [w |-> ZeroWeather, err |-> AggError(<<FailMsgs[1], FailMsgs[2]>>)] }

\* the entry Redis serves for key k: nothing once its time to live has run out
Live(k) == IF cache[k] # NoEntry /\ now < cache[k].exp THEN cache[k] ELSE NoEntry

\* ---------------------------------------------------------------- CachingFetcher
CacheInit ==
    /\ cache \in { c \in [Keys -> {NoEntry} \cup [raw : StoredValues, exp : {TTL}]] :
                     c[Key("london")] = NoEntry }
    /\ now = 0
    /\ cpc = [c \in 1..MaxCalls |-> "idle"]
    /\ ccity = [c \in 1..MaxCalls |-> ""]
    /\ craw = [c \in 1..MaxCalls |-> <<>>]
    /\ cheld = [c \in 1..MaxCalls |-> FALSE]
    /\ cbad = [c \in 1..MaxCalls |-> FALSE]
    /\ cgot = [c \in 1..MaxCalls |-> "none"]
    /\ cw = [c \in 1..MaxCalls |-> NoResult]
    /\ cret = [c \in 1..MaxCalls |-> NoResult]
    /\ cinner = [c \in 1..MaxCalls |-> 0]
    /\ cwrote = [c \in 1..MaxCalls |-> <<>>]

\* a caller invokes FetchCurrent(ctx, city); the calls are numbered in the order
\* they start
CacheCall(c, city) ==
    /\ cpc[c] = "idle"
    /\ \A b \in 1..(c - 1) : cpc[b] # "idle"
    /\ ccity' = [ccity EXCEPT ![c] = city]
    /\ cpc' = [cpc EXCEPT ![c] = "get"]
    /\ UNCHANGED <<cache, now, craw, cheld, cbad, cgot, cw, cret, cinner, cwrote, raceVars, buildVars, subVars, provVars, sideVars>>

\* mutant: the test on the Unmarshal error is inverted, so a value that decodes
\* is treated as corrupt
CacheGetHitIgnored(c, backendErr) ==
    /\ cpc[c] = "get"
    /\ cheld' = [cheld EXCEPT ![c] = Live(Key(ccity[c])) # NoEntry
                                      /\ Unmarshal(Live(Key(ccity[c])).raw).ok]
    /\ cbad' = [cbad EXCEPT ![c] = Live(Key(ccity[c])) # NoEntry
                                    /\ ~Unmarshal(Live(Key(ccity[c])).raw).ok]
    /\ craw' = [craw EXCEPT ![c] = IF backendErr THEN <<>> ELSE Live(Key(ccity[c])).raw]
    /\ cgot' = [cgot EXCEPT ![c] =
                  IF backendErr THEN "err"
                  ELSE IF Live(Key(ccity[c])) = NoEntry THEN "nil" ELSE "corrupt"]
    /\ cpc' = [cpc EXCEPT ![c] = "inner"]
    /\ UNCHANGED <<cache, now, ccity, cw, cret, cinner, cwrote, raceVars, buildVars, subVars, provVars, sideVars>>

\* mutant: a value that does not decode ends the call with the decoding error
CacheGetCorruptFails(c, backendErr) ==
    /\ cpc[c] = "get"
    /\ cheld' = [cheld EXCEPT ![c] = Live(Key(ccity[c])) # NoEntry
                                      /\ Unmarshal(Live(Key(ccity[c])).raw).ok]
    /\ cbad' = [cbad EXCEPT ![c] = Live(Key(ccity[c])) # NoEntry
                                    /\ ~Unmarshal(Live(Key(ccity[c])).raw).ok]
    /\ craw' = [craw EXCEPT ![c] = IF backendErr THEN <<>> ELSE Live(Key(ccity[c])).raw]
    /\ IF backendErr
       THEN /\ cgot' = [cgot EXCEPT ![c] = "err"]
            /\ cpc' = [cpc EXCEPT ![c] = "inner"]
            /\ UNCHANGED cret
       ELSE IF Live(Key(ccity[c])) = NoEntry
       THEN /\ cgot' = [cgot EXCEPT ![c] = "nil"]
            /\ cpc' = [cpc EXCEPT ![c] = "inner"]
            /\ UNCHANGED cret
       ELSE IF Unmarshal(Live(Key(ccity[c])).raw).ok
       THEN /\ cgot' = [cgot EXCEPT ![c] = "hit"]
            /\ cret' = [cret EXCEPT ![c] =
                          [w |-> Unmarshal(Live(Key(ccity[c])).raw).w, err |-> Nil]]
            /\ cpc' = [cpc EXCEPT ![c] = "done"]
       ELSE /\ cgot' = [cgot EXCEPT ![c] = "corrupt"]
            /\ cret' = [cret EXCEPT ![c] =
                          [w |-> ZeroWeather, err |-> <<"invalid character">>]]
            /\ cpc' = [cpc EXCEPT ![c] = "done"]
    /\ UNCHANGED <<cache, now, ccity, cw, cinner, cwrote, raceVars, buildVars, subVars, provVars, sideVars>>

\* mutant: a hit renews the time to live of the entry it read
CacheGetRefreshesTTL(c, backendErr) ==
    /\ cpc[c] = "get"
    /\ cheld' = [cheld EXCEPT ![c] = Live(Key(ccity[c])) # NoEntry
                                      /\ Unmarshal(Live(Key(ccity[c])).raw).ok]
    /\ cbad' = [cbad EXCEPT ![c] = Live(Key(ccity[c])) # NoEntry
                                    /\ ~Unmarshal(Live(Key(ccity[c])).raw).ok]
    /\ craw' = [craw EXCEPT ![c] = IF backendErr THEN <<>> ELSE Live(Key(ccity[c])).raw]
    /\ IF backendErr
       THEN /\ cgot' = [cgot EXCEPT ![c] = "err"]
            /\ cpc' = [cpc EXCEPT ![c] = "inner"]
            /\ UNCHANGED <<cret, cache>>
       ELSE IF Live(Key(ccity[c])) = NoEntry
       THEN /\ cgot' = [cgot EXCEPT ![c] = "nil"]
            /\ cpc' = [cpc EXCEPT ![c] = "inner"]
            /\ UNCHANGED <<cret, cache>>
       ELSE IF Unmarshal(Live(Key(ccity[c])).raw).ok
       THEN /\ cgot' = [cgot EXCEPT ![c] = "hit"]
            /\ cret' = [cret EXCEPT ![c] =
                          [w |-> Unmarshal(Live(Key(ccity[c])).raw).w, err |-> Nil]]
            /\ cache' = [cache EXCEPT ![Key(ccity[c])].exp = now + TTL]
            /\ cpc' = [cpc EXCEPT ![c] = "done"]
       ELSE /\ cgot' = [cgot EXCEPT ![c] = "corrupt"]
            /\ cpc' = [cpc EXCEPT ![c] = "inner"]
            /\ UNCHANGED <<cret, cache>>
    /\ UNCHANGED <<now, ccity, cw, cinner, cwrote, raceVars, buildVars, subVars, provVars, sideVars>>

\* mutant: a GET that ends with a backend error ends the call with that error
CacheGetBackendErrorSurfaces(c, backendErr) ==
    /\ cpc[c] = "get"
    /\ cheld' = [cheld EXCEPT ![c] = Live(Key(ccity[c])) # NoEntry
                                      /\ Unmarshal(Live(Key(ccity[c])).raw).ok]
    /\ cbad' = [cbad EXCEPT ![c] = Live(Key(ccity[c])) # NoEntry
                                    /\ ~Unmarshal(Live(Key(ccity[c])).raw).ok]
    /\ craw' = [craw EXCEPT ![c] = IF backendErr THEN <<>> ELSE Live(Key(ccity[c])).raw]
    /\ IF backendErr
       THEN /\ cgot' = [cgot EXCEPT ![c] = "err"]
            /\ cret' = [cret EXCEPT ![c] =
                          [w |-> ZeroWeather, err |-> <<"redis: connection refused">>]]
            /\ cpc' = [cpc EXCEPT ![c] = "done"]
       ELSE IF Live(Key(ccity[c])) = NoEntry
       THEN /\ cgot' = [cgot EXCEPT ![c] = "nil"]
            /\ cpc' = [cpc EXCEPT ![c] = "inner"]
            /\ UNCHANGED cret
       ELSE IF Unmarshal(Live(Key(ccity[c])).raw).ok
       THEN /\ cgot' = [cgot EXCEPT ![c] = "hit"]
            /\ cret' = [cret EXCEPT ![c] =
                          [w |-> Unmarshal(Live(Key(ccity[c])).raw).w, err |-> Nil]]
            /\ cpc' = [cpc EXCEPT ![c] = "done"]
       ELSE /\ cgot' = [cgot EXCEPT ![c] = "corrupt"]
            /\ cpc' = [cpc EXCEPT ![c] = "inner"]
            /\ UNCHANGED cret
    /\ UNCHANGED <<cache, now, ccity, cw, cinner, cwrote, raceVars, buildVars, subVars, provVars, sideVars>>

\* lines 167-181: GET and Unmarshal.  backendErr: the GET ends with an error
\* other than redis.Nil (backend unreachable, ctx done).
CacheGet(c, backendErr) ==
    /\ cpc[c] = "get"
    /\ cheld' = [cheld EXCEPT ![c] = Live(Key(ccity[c])) # NoEntry
                                      /\ Unmarshal(Live(Key(ccity[c])).raw).ok]
    /\ cbad' = [cbad EXCEPT ![c] = Live(Key(ccity[c])) # NoEntry
                                    /\ ~Unmarshal(Live(Key(ccity[c])).raw).ok]
    /\ craw' = [craw EXCEPT ![c] = IF backendErr THEN <<>> ELSE Live(Key(ccity[c])).raw]
    /\ IF backendErr
       THEN /\ cgot' = [cgot EXCEPT ![c] = "err"]
            /\ cpc' = [cpc EXCEPT ![c] = "inner"]
            /\ UNCHANGED cret
       ELSE IF Live(Key(ccity[c])) = NoEntry
       THEN /\ cgot' = [cgot EXCEPT ![c] = "nil"]
            /\ cpc' = [cpc EXCEPT ![c] = "inner"]
            /\ UNCHANGED cret
       ELSE IF Unmarshal(Live(Key(ccity[c])).raw).ok
       THEN /\ cgot' = [cgot EXCEPT ![c] = "hit"]
            /\ cret' = [cret EXCEPT ![c] =
                          [w |-> Unmarshal(Live(Key(ccity[c])).raw).w, err |-> Nil]]
            /\ cpc' = [cpc EXCEPT ![c] = "done"]
       ELSE /\ cgot' = [cgot EXCEPT ![c] = "corrupt"]
            /\ cpc' = [cpc EXCEPT ![c] = "inner"]
            /\ UNCHANGED cret
    /\ UNCHANGED <<cache, now, ccity, cw, cinner, cwrote, raceVars, buildVars, subVars, provVars, sideVars>>

\* mutant: the inner fetcher's error is wrapped before it is returned
CacheInnerWrapsError(c, r) ==
    /\ cpc[c] = "inner"
    /\ cinner' = [cinner EXCEPT ![c] = @ + 1]
    /\ cw' = [cw EXCEPT ![c] = r]
    /\ IF r.err # Nil
       THEN /\ cret' = [cret EXCEPT ![c] =
                          [w |-> r.w, err |-> <<"fetch failed: ">> \o r.err]]
            /\ cpc' = [cpc EXCEPT ![c] = "done"]
       ELSE /\ cpc' = [cpc EXCEPT ![c] = "store"]
            /\ UNCHANGED cret
    /\ UNCHANGED <<cache, now, ccity, craw, cheld, cbad, cgot, cwrote, raceVars, buildVars, subVars, provVars, sideVars>>

\* lines 184-187: the inner fetcher is called and returns r
CacheInner(c, r) ==
    /\ cpc[c] = "inner"
    /\ cinner' = [cinner EXCEPT ![c] = @ + 1]
    /\ cw' = [cw EXCEPT ![c] = r]
    /\ IF r.err # Nil
       THEN /\ cret' = [cret EXCEPT ![c] = r]
            /\ cpc' = [cpc EXCEPT ![c] = "done"]
       ELSE /\ cpc' = [cpc EXCEPT ![c] = "store"]
            /\ UNCHANGED cret
    /\ UNCHANGED <<cache, now, ccity, craw, cheld, cbad, cgot, cwrote, raceVars, buildVars, subVars, provVars, sideVars>>

\* how a SET can end: stored and acknowledged; refused or never delivered (serr);
\* stored with the reply lost (serr as well)
SetOutcomes == {"ok", "failed", "replylost"}

\* mutant: the entry is written with a time to live of one minute
CacheStoreShortTTL(c, outcome) ==
    /\ cpc[c] = "store"
    /\ IF Marshal(cw[c].w).ok /\ outcome # "failed"
       THEN /\ cache' = [cache EXCEPT ![Key(ccity[c])] =
                            [raw |-> Marshal(cw[c].w).blob, exp |-> now + 1]]
            /\ cwrote' = [cwrote EXCEPT ![c] =
                            Append(@, [key |-> Key(ccity[c]),
                                       raw |-> Marshal(cw[c].w).blob,
                                       at |-> now])]
       ELSE UNCHANGED <<cache, cwrote>>
    /\ cret' = [cret EXCEPT ![c] = [w |-> cw[c].w, err |-> Nil]]
    /\ cpc' = [cpc EXCEPT ![c] = "done"]
    /\ UNCHANGED <<now, ccity, craw, cheld, cbad, cgot, cw, cinner, raceVars, buildVars, subVars, provVars, sideVars>>

\* mutant: a Marshal or SET error is returned to the caller
CacheStoreErrorSurfaces(c, outcome) ==
    /\ cpc[c] = "store"
    /\ IF Marshal(cw[c].w).ok /\ outcome # "failed"
       THEN /\ cache' = [cache EXCEPT ![Key(ccity[c])] =
                            [raw |-> Marshal(cw[c].w).blob, exp |-> now + TTL]]
            /\ cwrote' = [cwrote EXCEPT ![c] =
                            Append(@, [key |-> Key(ccity[c]),
                                       raw |-> Marshal(cw[c].w).blob,
                                       at |-> now])]
       ELSE UNCHANGED <<cache, cwrote>>
    /\ cret' = [cret EXCEPT ![c] =
                  IF Marshal(cw[c].w).ok /\ outcome = "ok"
                  THEN [w |-> cw[c].w, err |-> Nil]
                  ELSE [w |-> ZeroWeather, err |-> <<"cache write failed">>]]
    /\ cpc' = [cpc EXCEPT ![c] = "done"]
    /\ UNCHANGED <<now, ccity, craw, cheld, cbad, cgot, cw, cinner, raceVars, buildVars, subVars, provVars, sideVars>>

\* lines 190-197: Marshal, SET with the ttl, return
CacheStore(c, outcome) ==
    /\ cpc[c] = "store"
    /\ IF Marshal(cw[c].w).ok /\ outcome # "failed"
       THEN /\ cache' = [cache EXCEPT ![Key(ccity[c])] =
                            [raw |-> Marshal(cw[c].w).blob, exp |-> now + TTL]]
            /\ cwrote' = [cwrote EXCEPT ![c] =
                            Append(@, [key |-> Key(ccity[c]),
                                       raw |-> Marshal(cw[c].w).blob,
                                       at |-> now])]
       ELSE UNCHANGED <<cache, cwrote>>
    /\ cret' = [cret EXCEPT ![c] = [w |-> cw[c].w, err |-> Nil]]
    /\ cpc' = [cpc EXCEPT ![c] = "done"]
    /\ UNCHANGED <<now, ccity, craw, cheld, cbad, cgot, cw, cinner, raceVars, buildVars, subVars, provVars, sideVars>>

\* time passes, up to the next instant; Redis drops the entries whose time to live
\* has run out
Tick ==
    /\ \E t \in Instants : t > now
    /\ now' = CHOOSE t \in Instants : t > now /\ \A u \in Instants : u > now => t <= u
    /\ cache' = [k \in Keys |-> IF cache[k] # NoEntry /\ now' >= cache[k].exp
                                THEN NoEntry ELSE cache[k]]
    /\ UNCHANGED <<cpc, ccity, craw, cheld, cbad, cgot, cw, cret, cinner, cwrote, raceVars, buildVars, subVars, provVars, sideVars>>

CacheNext ==
    \/ \E c \in 1..MaxCalls, city \in Cities : CacheCall(c, city)
    \/ \E c \in 1..MaxCalls, backendErr \in BOOLEAN : CacheGet(c, backendErr)
    \/ \E c \in 1..MaxCalls, r \in InnerResults : CacheInner(c, r)
    \/ \E c \in 1..MaxCalls, outcome \in SetOutcomes : CacheStore(c, outcome)
    \/ Tick

\* ---------------------------------------------------------------- BuildCachingFetcher
\* values of an API key in the configuration: missing, or set
ApiKeys == {"", "key"}

\* the nil Fetcher, and the CachingFetcher over a MainConcurrentFetcher over fs
NilFetcher == [inner |-> <<>>, ttl |-> 0]

BuiltFetcher(fs) == [inner |-> fs, ttl |-> TTL]

NoBuild == [fetcher |-> NilFetcher, err |-> <<"none">>]

\* openweathermap.NewClient and weatherapi.NewClient: the error for a missing key
OwmKeyError == <<"OPENWEATHERMAP_ORG_API_KEY is not set">>

WapKeyError == <<"environment variable WEATHERAPI_COM_API_KEY is not set">>

\* rdb.Ping's error when Redis does not answer
PingError == <<"dial tcp: connect: connection refused">>

\* BuildCachingFetcher(cfg, logger) is called
BuildInit ==
    /\ cfg \in [owm : ApiKeys, wap : ApiKeys]
    /\ redisUp \in BOOLEAN
    /\ bpc = "owm"
    /\ bfetchers = <<>>
    /\ berrs = <<>>
    /\ bret = NoBuild

\* lines 26-31: the OpenWeatherMap client
BuildOwm ==
    /\ bpc = "owm"
    /\ IF cfg.owm = ""
       THEN /\ berrs' = Append(berrs, <<"owm: ">> \o OwmKeyError)
            /\ UNCHANGED bfetchers
       ELSE /\ bfetchers' = Append(bfetchers, "openweathermap")
            /\ UNCHANGED berrs
    /\ bpc' = "wap"
    /\ UNCHANGED <<cfg, redisUp, bret, raceVars, cacheVars, subVars, provVars, sideVars>>

\* lines 34-39: the WeatherAPI.com client
BuildWap ==
    /\ bpc = "wap"
    /\ IF cfg.wap = ""
       THEN /\ berrs' = Append(berrs, <<"weatherapi: ">> \o WapKeyError)
            /\ UNCHANGED bfetchers
       ELSE /\ bfetchers' = Append(bfetchers, "weatherapi")
            /\ UNCHANGED berrs
    /\ bpc' = "check"
    /\ UNCHANGED <<cfg, redisUp, bret, raceVars, cacheVars, subVars, provVars, sideVars>>

\* lines 41-46: no provider at all ends the composition; otherwise the race
\* fetcher is built over the providers there are
BuildCheck ==
    /\ bpc = "check"
    /\ IF Len(bfetchers) = 0
       THEN /\ bret' = [fetcher |-> NilFetcher,
                        err |-> <<"no weather providers available: ">>
                                  \o Join(berrs, <<"; ">>)]
            /\ bpc' = "done"
       ELSE /\ bpc' = "ping"
            /\ UNCHANGED bret
    /\ UNCHANGED <<cfg, redisUp, bfetchers, berrs, raceVars, cacheVars, subVars, provVars, sideVars>>

\* mutant: a failed ping is not looked at
BuildPingIgnored ==
    /\ bpc = "ping"
    /\ bret' = [fetcher |-> BuiltFetcher(bfetchers), err |-> Nil]
    /\ cpc' = [c \in 1..MaxCalls |-> "idle"]
    /\ bpc' = "done"
    /\ UNCHANGED <<cfg, redisUp, bfetchers, berrs, raceVars, subVars,
                   cache, now, ccity, craw, cheld, cbad, cgot, cw, cret, cinner, cwrote, provVars, sideVars>>

\* lines 49-58: the Redis client, the ping, and the decorator; from the return on
\* the callers can invoke FetchCurrent on the Fetcher they were given
BuildPing ==
    /\ bpc = "ping"
    /\ IF redisUp
       THEN /\ bret' = [fetcher |-> BuiltFetcher(bfetchers), err |-> Nil]
            /\ cpc' = [c \in 1..MaxCalls |-> "idle"]
       ELSE /\ bret' = [fetcher |-> NilFetcher,
                        err |-> <<"redis ping failed: ">> \o PingError]
            /\ UNCHANGED cpc
    /\ bpc' = "done"
    /\ UNCHANGED <<cfg, redisUp, bfetchers, berrs, raceVars, subVars,
                   cache, now, ccity, craw, cheld, cbad, cgot, cw, cret, cinner, cwrote, provVars, sideVars>>

BuildNext ==
    \/ BuildOwm
    \/ BuildWap
    \/ BuildCheck
    \/ BuildPing

\* ---------------------------------------------------------------- subscriptions: values
\* number of rows ever inserted into the table
MaxSubs == 2

\* number of half-minute steps of the clock
MaxElapsed == 3

Ids == 1..MaxSubs

Emails == {"ann@example.com", "bob@example.com"}

SubCities == {"Kyiv", "Lviv"}

\* CHECK (frequency IN ('hourly', 'daily'))
Frequencies == {"hourly", "daily"}

\* token strings: a UUID, or text that uuid.Parse rejects
NullToken == <<"null", 0>>

BadToken == <<"malformed", 0>>

\* a UUID that gen_random_uuid() never produced
StrayToken == <<"uuid", 0>>

\* gen_random_uuid() for the confirm_token and the unsubscribe_token of row id
ConfirmTokenOf(id) == <<"uuid", 2 * id - 1>>

UnsubTokenOf(id) == <<"uuid", 2 * id>>

TokenStrs ==
    {BadToken, StrayToken} \cup { ConfirmTokenOf(i) : i \in Ids }
                           \cup { UnsubTokenOf(i) : i \in Ids }

\* uuid.Parse(tokenStr) succeeds
ParsesAsUUID(t) == t[1] = "uuid"

NoRow == [email |-> "", city |-> "", freq |-> "", confirmed |-> FALSE,
          ctoken |-> NullToken, utoken |-> NullToken, sh |-> 0, sm |-> 0]

\* the sentinel errors of the service, and the others it can return
ErrInvalidCity == <<"invalid city">>

ErrAlreadySubscribed == <<"email already subscribed for this city">>

ErrInvalidToken == <<"invalid token format">>

ErrTokenNotFound == <<"subscription not found for this token">>

DbDown == <<"dial tcp: connect: connection refused">>

SmtpDown == <<"smtp: connection refused">>

NoCall == [op |-> "none", err |-> Nil, mailed |-> FALSE]

NoTime == [h |-> 0 - 1, m |-> 0 - 1, s |-> 0 - 1]

\* moments at which the model starts, half a minute before a boundary
Starts == { [h |-> 10, m |-> 58, s |-> 30], [h |-> 23, m |-> 58, s |-> 30] }

\* mutant: the minute is advanced without carrying into the hour
PlusMinuteNoCarry(t) == [h |-> t.h, m |-> (t.m + 1) % 60, s |-> t.s]

\* t + INTERVAL '1 minute', as hour and minute
PlusMinute(t) ==
    [h |-> IF t.m = 59 THEN (t.h + 1) % 24 ELSE t.h, m |-> (t.m + 1) % 60, s |-> t.s]

\* t.Add(30 * time.Second)
PlusHalfMinute(t) ==
    IF t.s = 0 THEN [t EXCEPT !.s = 30] ELSE [PlusMinute(t) EXCEPT !.s = 0]

\* the ids of the rows in the table
Rows == { i \in Ids : subs[i] # NoRow }

\* mutant: the batch query without the test on confirmed
HourlyBatchUnconfirmed(minute) ==
    { i \in Rows : subs[i].freq = "hourly" /\ subs[i].sm = minute }

\* SELECT ... WHERE confirmed = TRUE AND frequency = 'hourly' AND scheduled_minute = $1
HourlyBatch(minute) ==
    { i \in Rows : subs[i].confirmed /\ subs[i].freq = "hourly" /\ subs[i].sm = minute }

\* mutant: the daily query without the test on scheduled_hour
DailyBatchMinuteOnly(hour, minute) ==
    { i \in Rows : /\ subs[i].confirmed /\ subs[i].freq = "daily"
                   /\ subs[i].sm = minute }

\* SELECT ... WHERE confirmed = TRUE AND frequency = 'daily'
\*              AND scheduled_hour = $1 AND scheduled_minute = $2
DailyBatch(hour, minute) ==
    { i \in Rows : /\ subs[i].confirmed /\ subs[i].freq = "daily"
                   /\ subs[i].sh = hour /\ subs[i].sm = minute }

\* ---------------------------------------------------------------- subscriptions: actions
\* an empty table, the scheduler between two runs of its job
SubsInit ==
    /\ subs = [i \in Ids |-> NoRow]
    /\ nextId = 0
    /\ clock \in Starts
    /\ elapsed = 0
    /\ spc = "wait"
    /\ batch = {}
    /\ updated = {}
    /\ confAt = [i \in Ids |-> NoTime]
    /\ sret = NoCall

\* mutant: the row is created before the city is validated
SubscribeCreatesFirst(emailAddr, city, frequency, fetchOK, dbOK, sendOK) ==
    /\ IF ~dbOK
       THEN /\ sret' = [op |-> "subscribe", err |-> <<"repo.Create: ">> \o DbDown,
                        mailed |-> FALSE]
            /\ UNCHANGED <<subs, nextId>>
       ELSE IF \E i \in Rows : subs[i].email = emailAddr
       THEN /\ sret' = [op |-> "subscribe", err |-> ErrAlreadySubscribed,
                        mailed |-> FALSE]
            /\ UNCHANGED <<subs, nextId>>
       ELSE /\ nextId < MaxSubs
            /\ nextId' = nextId + 1
            /\ subs' = [subs EXCEPT ![nextId + 1] =
                          [email |-> emailAddr, city |-> city, freq |-> frequency,
                           confirmed |-> FALSE,
                           ctoken |-> ConfirmTokenOf(nextId + 1),
                           utoken |-> UnsubTokenOf(nextId + 1),
                           sh |-> 0, sm |-> 0]]
            /\ sret' = IF ~fetchOK
                       THEN [op |-> "subscribe", err |-> ErrInvalidCity, mailed |-> FALSE]
                       ELSE IF sendOK
                       THEN [op |-> "subscribe", err |-> Nil, mailed |-> TRUE]
                       ELSE [op |-> "subscribe",
                             err |-> <<"email.SendBatch: ">> \o SmtpDown,
                             mailed |-> FALSE]
    /\ UNCHANGED <<clock, elapsed, spc, batch, updated, confAt,
                   raceVars, cacheVars, buildVars, provVars, sideVars>>

\* mutant: the row is taken back when the confirmation email cannot be sent
SubscribeRollsBack(emailAddr, city, frequency, fetchOK, dbOK, sendOK) ==
    /\ IF ~fetchOK
       THEN /\ sret' = [op |-> "subscribe", err |-> ErrInvalidCity, mailed |-> FALSE]
            /\ UNCHANGED <<subs, nextId>>
       ELSE IF ~dbOK
       THEN /\ sret' = [op |-> "subscribe", err |-> <<"repo.Create: ">> \o DbDown,
                        mailed |-> FALSE]
            /\ UNCHANGED <<subs, nextId>>
       ELSE IF \E i \in Rows : subs[i].email = emailAddr
       THEN /\ sret' = [op |-> "subscribe", err |-> ErrAlreadySubscribed,
                        mailed |-> FALSE]
            /\ UNCHANGED <<subs, nextId>>
       ELSE IF ~sendOK
       THEN /\ nextId < MaxSubs
            /\ sret' = [op |-> "subscribe",
                        err |-> <<"email.SendBatch: ">> \o SmtpDown,
                        mailed |-> FALSE]
            /\ UNCHANGED <<subs, nextId>>
       ELSE /\ nextId < MaxSubs
            /\ nextId' = nextId + 1
            /\ subs' = [subs EXCEPT ![nextId + 1] =
                          [email |-> emailAddr, city |-> city, freq |-> frequency,
                           confirmed |-> FALSE,
                           ctoken |-> ConfirmTokenOf(nextId + 1),
                           utoken |-> UnsubTokenOf(nextId + 1),
                           sh |-> 0, sm |-> 0]]
            /\ sret' = [op |-> "subscribe", err |-> Nil, mailed |-> TRUE]
    /\ UNCHANGED <<clock, elapsed, spc, batch, updated, confAt,
                   raceVars, cacheVars, buildVars, provVars, sideVars>>

\* subscriptionService.Subscribe with pgRepo.Create.  fetchOK: the weather fetch
\* for the city succeeds; dbOK: the database answers; sendOK: SendBatch succeeds.
SubscribeCall(emailAddr, city, frequency, fetchOK, dbOK, sendOK) ==
    /\ IF ~fetchOK
       THEN /\ sret' = [op |-> "subscribe", err |-> ErrInvalidCity, mailed |-> FALSE]
            /\ UNCHANGED <<subs, nextId>>
       ELSE IF ~dbOK
       THEN /\ sret' = [op |-> "subscribe", err |-> <<"repo.Create: ">> \o DbDown,
                        mailed |-> FALSE]
            /\ UNCHANGED <<subs, nextId>>
       ELSE IF \E i \in Rows : subs[i].email = emailAddr
       THEN /\ sret' = [op |-> "subscribe", err |-> ErrAlreadySubscribed,
                        mailed |-> FALSE]
            /\ UNCHANGED <<subs, nextId>>
       ELSE /\ nextId < MaxSubs
            /\ nextId' = nextId + 1
            /\ subs' = [subs EXCEPT ![nextId + 1] =
                          [email |-> emailAddr, city |-> city, freq |-> frequency,
                           confirmed |-> FALSE,
                           ctoken |-> ConfirmTokenOf(nextId + 1),
                           utoken |-> UnsubTokenOf(nextId + 1),
                           sh |-> 0, sm |-> 0]]
            /\ sret' = IF sendOK
                       THEN [op |-> "subscribe", err |-> Nil, mailed |-> TRUE]
                       ELSE [op |-> "subscribe",
                             err |-> <<"email.SendBatch: ">> \o SmtpDown,
                             mailed |-> FALSE]
    /\ UNCHANGED <<clock, elapsed, spc, batch, updated, confAt>>

\* the call on the service alone: nothing else moves
Subscribe(emailAddr, city, frequency, fetchOK, dbOK, sendOK) ==
    /\ SubscribeCall(emailAddr, city, frequency, fetchOK, dbOK, sendOK)
    /\ UNCHANGED <<raceVars, cacheVars, buildVars, provVars, sideVars>>

\* mutant: the UPDATE neither tests confirmed nor clears the token
ConfirmTokenKept(tokenStr, dbOK) ==
    /\ IF ~ParsesAsUUID(tokenStr)
       THEN /\ sret' = [op |-> "confirm", err |-> ErrInvalidToken, mailed |-> FALSE]
            /\ UNCHANGED <<subs, confAt>>
       ELSE IF ~dbOK
       THEN /\ sret' = [op |-> "confirm", err |-> <<"repo.Confirm: ">> \o DbDown,
                        mailed |-> FALSE]
            /\ UNCHANGED <<subs, confAt>>
       ELSE IF { i \in Rows : subs[i].ctoken = tokenStr } = {}
       THEN /\ sret' = [op |-> "confirm", err |-> ErrTokenNotFound, mailed |-> FALSE]
            /\ UNCHANGED <<subs, confAt>>
       ELSE /\ subs' = [i \in Ids |->
                          IF i \in Rows /\ subs[i].ctoken = tokenStr
                          THEN [subs[i] EXCEPT !.confirmed = TRUE,
                                               !.sh = PlusMinute(clock).h,
                                               !.sm = PlusMinute(clock).m]
                          ELSE subs[i]]
            /\ confAt' = [i \in Ids |->
                            IF i \in Rows /\ subs[i].ctoken = tokenStr
                            THEN clock ELSE confAt[i]]
            /\ sret' = [op |-> "confirm", err |-> Nil, mailed |-> FALSE]
    /\ UNCHANGED <<nextId, clock, elapsed, spc, batch, updated,
                   raceVars, cacheVars, buildVars, provVars, sideVars>>

\* mutant: the UPDATE clears the token and leaves confirmed as it was
ConfirmClearsTokenOnly(tokenStr, dbOK) ==
    /\ IF ~ParsesAsUUID(tokenStr)
       THEN /\ sret' = [op |-> "confirm", err |-> ErrInvalidToken, mailed |-> FALSE]
            /\ UNCHANGED <<subs, confAt>>
       ELSE IF ~dbOK
       THEN /\ sret' = [op |-> "confirm", err |-> <<"repo.Confirm: ">> \o DbDown,
                        mailed |-> FALSE]
            /\ UNCHANGED <<subs, confAt>>
       ELSE IF { i \in Rows : subs[i].ctoken = tokenStr /\ ~subs[i].confirmed } = {}
       THEN /\ sret' = [op |-> "confirm", err |-> ErrTokenNotFound, mailed |-> FALSE]
            /\ UNCHANGED <<subs, confAt>>
       ELSE /\ subs' = [i \in Ids |->
                          IF i \in Rows /\ subs[i].ctoken = tokenStr /\ ~subs[i].confirmed
                          THEN [subs[i] EXCEPT !.ctoken = NullToken,
                                               !.sh = PlusMinute(clock).h,
                                               !.sm = PlusMinute(clock).m]
                          ELSE subs[i]]
            /\ UNCHANGED confAt
            /\ sret' = [op |-> "confirm", err |-> Nil, mailed |-> FALSE]
    /\ UNCHANGED <<nextId, clock, elapsed, spc, batch, updated,
                   raceVars, cacheVars, buildVars, provVars, sideVars>>

\* subscriptionService.Confirm with pgRepo.Confirm: one UPDATE, at the time the
\* clock shows
ConfirmCall(tokenStr, dbOK) ==
    /\ IF ~ParsesAsUUID(tokenStr)
       THEN /\ sret' = [op |-> "confirm", err |-> ErrInvalidToken, mailed |-> FALSE]
            /\ UNCHANGED <<subs, confAt>>
       ELSE IF ~dbOK
       THEN /\ sret' = [op |-> "confirm", err |-> <<"repo.Confirm: ">> \o DbDown,
                        mailed |-> FALSE]
            /\ UNCHANGED <<subs, confAt>>
       ELSE IF { i \in Rows : subs[i].ctoken = tokenStr /\ ~subs[i].confirmed } = {}
       THEN /\ sret' = [op |-> "confirm", err |-> ErrTokenNotFound, mailed |-> FALSE]
            /\ UNCHANGED <<subs, confAt>>
       ELSE /\ subs' = [i \in Ids |->
                          IF i \in Rows /\ subs[i].ctoken = tokenStr /\ ~subs[i].confirmed
                          THEN [subs[i] EXCEPT !.confirmed = TRUE,
                                               !.ctoken = NullToken,
                                               !.sh = PlusMinute(clock).h,
                                               !.sm = PlusMinute(clock).m]
                          ELSE subs[i]]
            /\ confAt' = [i \in Ids |->
                            IF i \in Rows /\ subs[i].ctoken = tokenStr /\ ~subs[i].confirmed
                            THEN clock ELSE confAt[i]]
            /\ sret' = [op |-> "confirm", err |-> Nil, mailed |-> FALSE]
    /\ UNCHANGED <<nextId, clock, elapsed, spc, batch, updated>>

\* the call on the service alone: nothing else moves
Confirm(tokenStr, dbOK) ==
    /\ ConfirmCall(tokenStr, dbOK)
    /\ UNCHANGED <<raceVars, cacheVars, buildVars, provVars, sideVars>>

\* mutant: the DELETE spares the subscriptions that are not yet confirmed
UnsubscribeConfirmedOnly(tokenStr, dbOK) ==
    /\ IF ~ParsesAsUUID(tokenStr)
       THEN /\ sret' = [op |-> "unsubscribe", err |-> ErrInvalidToken, mailed |-> FALSE]
            /\ UNCHANGED <<subs, confAt>>
       ELSE IF ~dbOK
       THEN /\ sret' = [op |-> "unsubscribe",
                        err |-> <<"repo.DeleteByUnsubToken: ">> \o DbDown,
                        mailed |-> FALSE]
            /\ UNCHANGED <<subs, confAt>>
       ELSE IF { i \in Rows : subs[i].utoken = tokenStr /\ subs[i].confirmed } = {}
       THEN /\ sret' = [op |-> "unsubscribe", err |-> ErrTokenNotFound,
                        mailed |-> FALSE]
            /\ UNCHANGED <<subs, confAt>>
       ELSE /\ subs' = [i \in Ids |->
                          IF i \in Rows /\ subs[i].utoken = tokenStr
                          THEN NoRow ELSE subs[i]]
            /\ confAt' = [i \in Ids |->
                            IF i \in Rows /\ subs[i].utoken = tokenStr
                            THEN NoTime ELSE confAt[i]]
            /\ sret' = [op |-> "unsubscribe", err |-> Nil, mailed |-> FALSE]
    /\ UNCHANGED <<nextId, clock, elapsed, spc, batch, updated,
                   raceVars, cacheVars, buildVars, provVars, sideVars>>

\* subscriptionService.Unsubscribe with pgRepo.DeleteByUnsubToken: one DELETE
UnsubscribeCall(tokenStr, dbOK) ==
    /\ IF ~ParsesAsUUID(tokenStr)
       THEN /\ sret' = [op |-> "unsubscribe", err |-> ErrInvalidToken, mailed |-> FALSE]
            /\ UNCHANGED <<subs, confAt>>
       ELSE IF ~dbOK
       THEN /\ sret' = [op |-> "unsubscribe",
                        err |-> <<"repo.DeleteByUnsubToken: ">> \o DbDown,
                        mailed |-> FALSE]
            /\ UNCHANGED <<subs, confAt>>
       ELSE IF { i \in Rows : subs[i].utoken = tokenStr } = {}
       THEN /\ sret' = [op |-> "unsubscribe", err |-> ErrTokenNotFound,
                        mailed |-> FALSE]
            /\ UNCHANGED <<subs, confAt>>
       ELSE /\ subs' = [i \in Ids |->
                          IF i \in Rows /\ subs[i].utoken = tokenStr
                          THEN NoRow ELSE subs[i]]
            /\ confAt' = [i \in Ids |->
                            IF i \in Rows /\ subs[i].utoken = tokenStr
                            THEN NoTime ELSE confAt[i]]
            /\ sret' = [op |-> "unsubscribe", err |-> Nil, mailed |-> FALSE]
    /\ UNCHANGED <<nextId, clock, elapsed, spc, batch, updated>>

\* the call on the service alone: nothing else moves
Unsubscribe(tokenStr, dbOK) ==
    /\ UnsubscribeCall(tokenStr, dbOK)
    /\ UNCHANGED <<raceVars, cacheVars, buildVars, provVars, sideVars>>

\* ---------------------------------------------------------------- the HTTP handlers
\* c.Param("token") of a request whose path has nothing after the last slash
EmptyToken == <<"", 0>>

PathTokens == TokenStrs \cup {EmptyToken}

\* payloads of POST /api/subscribe: those the model subscribes with, and one
\* value for each field that the binding tags refuse
ReqEmails == Emails \cup {"", "ann.example.com"}

ReqCities == SubCities \cup {""}

ReqFrequencies == Frequencies \cup {"weekly"}

\* c.ShouldBind(&req) returns nil: required,email / required / required,oneof=hourly daily
BindOK(emailAddr, city, frequency) ==
    /\ emailAddr \in Emails
    /\ city # ""
    /\ frequency \in {"hourly", "daily"}

BindError == <<"Key: 'subscribeRequest' Error:Field validation failed">>

\* no request has been handled
NoRequest == [status |-> 0, body |-> <<>>, written |-> FALSE]

\* the response of a handler that returns without a call on c: gin's writer
\* starts every request with status 200 and sends it with an empty body
NothingWritten == [status |-> 200, body |-> <<>>, written |-> FALSE]

\* c.JSON(code, gin.H{...})
JSON(code, text) == [status |-> code, body |-> text, written |-> TRUE]

\* errors.Is(err, target): err or an error it wraps with %w is target
ErrorsIs(err, target) ==
    /\ err # Nil
    /\ \E k \in 1..Len(err) : SubSeq(err, k, Len(err)) = target

\* the switch of ConfirmHandler and of UnsubscribeHandler over the error of the
\* service call: three cases and no default
TokenResponse(err, okText) ==
    IF err = Nil THEN JSON(200, okText)
    ELSE IF ErrorsIs(err, ErrInvalidToken) THEN JSON(400, err)
    ELSE IF ErrorsIs(err, ErrTokenNotFound) THEN JSON(404, err)
    ELSE NothingWritten

HandlerFrame == UNCHANGED <<raceVars, cacheVars, buildVars, provVars,
                            tickVars, updVars, smtpVars>>

\* POST /api/subscribe
SubscribeHandler(emailAddr, city, frequency, fetchOK, dbOK, sendOK) ==
    /\ IF ~BindOK(emailAddr, city, frequency)
       THEN /\ hresp' = JSON(400, BindError)
            /\ UNCHANGED subVars
       ELSE /\ SubscribeCall(emailAddr, city, frequency, fetchOK, dbOK, sendOK)
            /\ hresp' = IF sret'.err = Nil
                        THEN JSON(200, <<"Subscription successful. Confirmation email sent.">>)
                        ELSE IF ErrorsIs(sret'.err, ErrAlreadySubscribed)
                        THEN JSON(409, sret'.err)
                        ELSE JSON(400, sret'.err)
    /\ HandlerFrame

\* GET /api/confirm/:token
ConfirmHandler(token, dbOK) ==
    /\ IF token = EmptyToken
       THEN /\ hresp' = JSON(400, ErrInvalidToken)
            /\ UNCHANGED subVars
       ELSE /\ ConfirmCall(token, dbOK)
            /\ hresp' = TokenResponse(sret'.err, <<"Subscription confirmed successfully">>)
    /\ HandlerFrame

\* GET /api/unsubscribe/:token
UnsubscribeHandler(token, dbOK) ==
    /\ IF token = EmptyToken
       THEN /\ hresp' = JSON(400, ErrInvalidToken)
            /\ UNCHANGED subVars
       ELSE /\ UnsubscribeCall(token, dbOK)
            /\ hresp' = TokenResponse(sret'.err, <<"Unsubscribed successfully">>)
    /\ HandlerFrame

\* the three routes of the API over one table
HttpNext ==
    \/ \E e \in ReqEmails, c \in ReqCities, f \in ReqFrequencies,
          fetchOK \in BOOLEAN, dbOK \in BOOLEAN, sendOK \in BOOLEAN :
          SubscribeHandler(e, c, f, fetchOK, dbOK, sendOK)
    \/ \E t \in PathTokens, dbOK \in BOOLEAN : ConfirmHandler(t, dbOK)
    \/ \E t \in PathTokens, dbOK \in BOOLEAN : UnsubscribeHandler(t, dbOK)

\* the clock moves on by 30 seconds; on a minute boundary cron starts the job.
\* The job of a minute is over before the clock moves again.
ClockStep ==
    /\ elapsed < MaxElapsed
    /\ spc = "wait"
    /\ clock' = PlusHalfMinute(clock)
    /\ elapsed' = elapsed + 1
    /\ spc' = IF clock'.s = 0 THEN "hourly" ELSE "wait"
    /\ batch' = {}
    /\ updated' = {}
    /\ UNCHANGED <<subs, nextId, confAt, sret, raceVars, cacheVars, buildVars, provVars, sideVars>>

\* scheduler.go 57-64: now := time.Now().Add(30s); HourlyBatch(ctx, now.Minute()).
\* dbOK: the query succeeds; when it fails the job goes on to the daily batch.
JobHourly(dbOK) ==
    /\ spc = "hourly"
    /\ batch' = IF dbOK THEN HourlyBatch(PlusHalfMinute(clock).m) ELSE {}
    /\ spc' = IF dbOK THEN "hsend" ELSE "daily"
    /\ UNCHANGED <<subs, nextId, clock, elapsed, updated, confAt, sret,
                   raceVars, cacheVars, buildVars, provVars, sideVars>>

\* scheduler.go 69: sendWeatherUpdates over the hourly batch.  got: the
\* subscriptions whose fetch succeeded and whose message SMTP accepted.
JobSendHourly(got) ==
    /\ spc = "hsend"
    /\ got \subseteq batch
    /\ updated' = updated \cup got
    /\ spc' = "daily"
    /\ UNCHANGED <<subs, nextId, clock, elapsed, batch, confAt, sret,
                   raceVars, cacheVars, buildVars, provVars, sideVars>>

\* scheduler.go 73: DailyBatch(ctx, now.Hour(), now.Minute())
JobDaily(dbOK) ==
    /\ spc = "daily"
    /\ batch' = IF dbOK
                 THEN DailyBatch(PlusHalfMinute(clock).h, PlusHalfMinute(clock).m)
                 ELSE {}
    /\ spc' = IF dbOK THEN "dsend" ELSE "wait"
    /\ UNCHANGED <<subs, nextId, clock, elapsed, updated, confAt, sret,
                   raceVars, cacheVars, buildVars, provVars, sideVars>>

\* scheduler.go 78: sendWeatherUpdates over the daily batch
JobSendDaily(got) ==
    /\ spc = "dsend"
    /\ got \subseteq batch
    /\ updated' = updated \cup got
    /\ spc' = "wait"
    /\ UNCHANGED <<subs, nextId, clock, elapsed, batch, confAt, sret,
                   raceVars, cacheVars, buildVars, provVars, sideVars>>

\* the calls the API process makes on the service, with every outcome of the
\* collaborators
ApiNext ==
    \/ \E e \in Emails, c \in SubCities, f \in Frequencies,
          fetchOK \in BOOLEAN, dbOK \in BOOLEAN, sendOK \in BOOLEAN :
          Subscribe(e, c, f, fetchOK, dbOK, sendOK)
    \/ \E t \in TokenStrs, dbOK \in BOOLEAN : Confirm(t, dbOK)
    \/ \E t \in TokenStrs, dbOK \in BOOLEAN : Unsubscribe(t, dbOK)

\* the scheduler process beside the API calls that reach the table; the city of a
\* subscription plays no part in its selection
SchedNext ==
    \/ \E e \in Emails, f \in Frequencies : Subscribe(e, "Kyiv", f, TRUE, TRUE, TRUE)
    \/ \E t \in TokenStrs : Confirm(t, TRUE)
    \/ \E t \in TokenStrs : Unsubscribe(t, TRUE)
    \/ ClockStep
    \/ \E dbOK \in BOOLEAN : JobHourly(dbOK)
    \/ \E got \in SUBSET Ids : JobSendHourly(got)
    \/ \E dbOK \in BOOLEAN : JobDaily(dbOK)
    \/ \E got \in SUBSET Ids : JobSendDaily(got)

\* ---------------------------------------------------------------- CachingFetcher: properties
\* call c has run its GET
PastGet(c) == cpc[c] \in {"inner", "store", "done"}

\* C10 as claimed: if Redis holds an unexpired entry under "weather:"+X that
\* decodes, a call for X returns the cached reading with a nil error and never
\* invokes the inner fetcher.
C10_CacheShortCircuit ==
    \A c \in 1..MaxCalls :
        (PastGet(c) /\ cheld[c]) =>
            /\ cpc[c] = "done"
            /\ cinner[c] = 0
            /\ cret[c].err = Nil

\* C10 amended: if the GET of "weather:"+X answers with an unexpired entry that
\* decodes, the call returns exactly the reading of that entry with a nil error,
\* never invokes the inner fetcher and writes nothing; a GET that ends with a
\* backend error leads to the inner fetcher although the entry is there.
C10_CacheShortCircuitOnHit ==
    \A c \in 1..MaxCalls :
        (PastGet(c) /\ cheld[c] /\ cgot[c] # "err") =>
            /\ cpc[c] = "done"
            /\ cinner[c] = 0
            /\ cwrote[c] = <<>>
            /\ cret[c] = [w |-> Unmarshal(craw[c]).w, err |-> Nil]
            /\ \A r \in Readings : craw[c] = Marshal(r).blob => cret[c].w = r

\* a call served from the entry that an earlier call wrote
C10_Witness ==
    \E c, b \in 1..MaxCalls :
        /\ b # c /\ cpc[c] = "done" /\ cgot[c] = "hit" /\ cinner[c] = 0
        /\ Len(cwrote[b]) = 1 /\ cwrote[b][1].key = Key(ccity[c])
        /\ craw[c] = cwrote[b][1].raw
        /\ cret[c] = [w |-> cw[b].w, err |-> Nil]

\* call c has returned
Returns(c) == cpc[c] = "done"

\* C11: if the entry for city X is there but does not decode, the call still
\* invokes the inner fetcher, exactly once, and returns the inner fetcher's success
\* when it succeeds; an error of the call is the inner fetcher's, never the
\* corruption.
C11_CorruptFallsBackToInner ==
    \A c \in 1..MaxCalls :
        (PastGet(c) /\ cbad[c]) =>
            /\ cgot[c] \in {"corrupt", "err"}
            /\ cinner[c] = (IF cpc[c] = "inner" THEN 0 ELSE 1)
            /\ (Returns(c) /\ cw[c].err = Nil) => cret[c] = [w |-> cw[c].w, err |-> Nil]
            /\ (Returns(c) /\ cret[c].err # Nil) => cret[c] = cw[c]

\* a value that is not JSON was read, the inner fetcher was called once and its
\* reading returned
C11_Witness ==
    \E c \in 1..MaxCalls :
        /\ Returns(c) /\ cgot[c] = "corrupt" /\ craw[c] = <<"not json">>
        /\ cinner[c] = 1 /\ cret[c].err = Nil /\ cret[c].w \in Readings

\* C12: two consecutive calls for a city X that was not cached, with a working
\* inner fetcher and a working cache, the second one reading the cache within the
\* TTL of the first one's write and no other call for X about: the second call is
\* served from the entry the first one wrote, so the inner fetcher is invoked once
\* in total and both calls return equal readings.
C12_WriteThroughIdempotence ==
    [][ \A a, b \in 1..MaxCalls :
          ( /\ a # b
            /\ Returns(a) /\ cgot[a] = "nil"
            /\ cw[a].err = Nil /\ cw[a].w \in Readings
            /\ Len(cwrote[a]) = 1
            /\ cpc[b] = "get" /\ ccity[b] = ccity[a]
            /\ cpc'[b] # "get" /\ cgot'[b] # "err"
            /\ now < cwrote[a][1].at + TTL
            /\ \A d \in 1..MaxCalls \ {a, b} : cpc[d] = "idle" \/ ccity[d] # ccity[a] )
          => /\ cpc'[b] = "done"
             /\ cinner[a] + cinner'[b] = 1
             /\ cret[a] = [w |-> cw[a].w, err |-> Nil]
             /\ cret'[b] = cret[a] ]_vars

\* the first call missed, fetched and stored; the second, four minutes after the
\* write, returned the same reading without the inner fetcher
C12_Witness ==
    \E a, b \in 1..MaxCalls :
        /\ a # b /\ Returns(a) /\ Returns(b) /\ ccity[a] = ccity[b]
        /\ cgot[a] = "nil" /\ cinner[a] = 1 /\ Len(cwrote[a]) = 1 /\ cwrote[a][1].at = 1
        /\ cgot[b] = "hit" /\ cinner[b] = 0 /\ now = TTL
        /\ cret[a].w \in Readings /\ cret[b] = cret[a]

\* the step in which call c leaves lines 190-197
StoreStep(c) == cpc[c] = "store" /\ cpc'[c] # "store"

\* C13: when the inner fetch succeeded, the call returns the inner fetcher's reading
\* with a nil error whatever becomes of the write: a reading that cannot be
\* serialized, a SET that the backend refuses, or a SET whose reply is lost.
C13_CacheOutageTolerance ==
    [][ \A c \in 1..MaxCalls :
          /\ StoreStep(c) =>
                /\ cw[c].err = Nil
                /\ cpc'[c] = "done"
                /\ cret'[c] = [w |-> cw[c].w, err |-> Nil]
          /\ (StoreStep(c) /\ (~Marshal(cw[c].w).ok \/ CacheStore(c, "failed"))) =>
                (cache' = cache /\ cwrote' = cwrote) ]_vars

\* one call returned its reading although its SET failed, another although its
\* reading could not be serialized
C13_Witness ==
    \E c, b \in 1..MaxCalls :
        /\ Returns(c) /\ cinner[c] = 1 /\ cw[c].w \in Readings /\ cwrote[c] = <<>>
        /\ cret[c] = [w |-> cw[c].w, err |-> Nil]
        /\ Returns(b) /\ cinner[b] = 1 /\ cw[b].w = NaNWeather /\ cwrote[b] = <<>>
        /\ cret[b] = [w |-> NaNWeather, err |-> Nil]

\* C14: a call returns an error exactly when it invoked the inner fetcher and the
\* inner fetcher returned an error; a key not found, a backend error, a value that
\* does not decode and a failed write never fail the call, and every read outcome
\* other than a valid hit is followed by one invocation of the inner fetcher.
C14_ErrorIffInnerError ==
    \A c \in 1..MaxCalls :
        PastGet(c) =>
            /\ cgot[c] \in {"hit", "nil", "err", "corrupt"}
            /\ (cgot[c] = "hit") <=> (Returns(c) /\ cinner[c] = 0)
            /\ (cgot[c] # "hit") => cinner[c] = (IF cpc[c] = "inner" THEN 0 ELSE 1)
            /\ Returns(c) =>
                  ((cret[c].err # Nil) <=> (cinner[c] = 1 /\ cw[c].err # Nil))

\* one call met a backend error on the read and a failed write and returned a
\* reading; another missed and returned the inner fetcher's error
C14_Witness ==
    \E c, b \in 1..MaxCalls :
        /\ Returns(c) /\ cgot[c] = "err" /\ cinner[c] = 1 /\ cwrote[c] = <<>>
        /\ cw[c].w \in Readings /\ cret[c].err = Nil
        /\ Returns(b) /\ cgot[b] = "nil" /\ cinner[b] = 1 /\ cw[b].err # Nil
        /\ cret[b].err # Nil

\* the step in which the inner fetcher of call c returns an error
InnerFailStep(c) == cpc[c] = "inner" /\ cpc'[c] # "inner" /\ cw'[c].err # Nil

\* C15: when the inner fetcher fails, the call ends at once with the inner
\* fetcher's (reading, error) pair as it is, it has written nothing, and Redis is
\* left as it was: no entry is created, modified or removed.
C15_InnerFailureVerbatim ==
    [][ \A c \in 1..MaxCalls :
          InnerFailStep(c) =>
              /\ cpc'[c] = "done"
              /\ cret'[c] = cw'[c]
              /\ cache' = cache
              /\ cwrote[c] = <<>> /\ cwrote'[c] = <<>> ]_vars

\* a call found a corrupt entry, its inner fetcher failed, and the corrupt entry
\* is still there
C15_Witness ==
    \E c \in 1..MaxCalls :
        /\ Returns(c) /\ cgot[c] = "corrupt" /\ cinner[c] = 1
        /\ cw[c].err # Nil /\ cret[c] = cw[c] /\ cwrote[c] = <<>>
        /\ cache[Key(ccity[c])] # NoEntry /\ cache[Key(ccity[c])].raw = craw[c]

\* C16: when a call for city X found no entry, its inner fetcher returned the
\* reading R and the SET is carried out, then at the return of the call Redis holds
\* under "weather:"+X the serialization of R, which decodes to R, due to expire 5
\* minutes later, no other key is touched, and the call returns R with a nil error.
C16_MissStoresReading ==
    [][ \A c \in 1..MaxCalls :
          ( /\ StoreStep(c)
            /\ cgot[c] = "nil"
            /\ cw[c].w \in Readings
            /\ CacheStore(c, "ok") )
          => /\ cache'[<<"weather:", ccity[c]>>] =
                    [raw |-> Marshal(cw[c].w).blob, exp |-> now + 5]
             /\ Unmarshal(cache'[<<"weather:", ccity[c]>>].raw) =
                    [ok |-> TRUE, w |-> cw[c].w]
             /\ \A k \in Keys \ {<<"weather:", ccity[c]>>} : cache'[k] = cache[k]
             /\ cret'[c] = [w |-> cw[c].w, err |-> Nil] ]_vars

\* a call for "London" missed, fetched a reading and left it under
\* "weather:London"
C16_Witness ==
    \E c \in 1..MaxCalls :
        /\ Returns(c) /\ ccity[c] = "London" /\ cgot[c] = "nil" /\ cinner[c] = 1
        /\ cw[c].w \in Readings /\ Len(cwrote[c]) = 1
        /\ cwrote[c][1].key = <<"weather:", "London">>
        /\ cache[<<"weather:", "London">>] =
              [raw |-> Marshal(cw[c].w).blob, exp |-> cwrote[c][1].at + TTL]
        /\ cret[c] = [w |-> cw[c].w, err |-> Nil]

\* C17: whatever a call returns is either the reading decoded from the value that
\* its GET read under the key of its city, with a nil error and the inner fetcher
\* not invoked, or the (reading, error) pair its inner fetcher returned; and a
\* value that a call of this program wrote decodes to the very reading that call
\* had fetched.
C17_PayloadUnaltered ==
    \A c \in 1..MaxCalls :
        Returns(c) =>
            /\ \/ /\ cgot[c] = "hit" /\ cinner[c] = 0
                  /\ Unmarshal(craw[c]).ok
                  /\ cret[c] = [w |-> Unmarshal(craw[c]).w, err |-> Nil]
               \/ /\ cgot[c] # "hit" /\ cinner[c] = 1
                  /\ cret[c] = cw[c]
            /\ \A a \in 1..MaxCalls : \A i \in 1..Len(cwrote[a]) :
                  (cgot[c] = "hit" /\ cwrote[a][i].raw = craw[c]) =>
                      cret[c] = [w |-> cw[a].w, err |-> Nil]

\* one call fetched and wrote a reading and returned it; a later call read that
\* entry and returned the same reading
C17_Witness ==
    \E c, a \in 1..MaxCalls :
        /\ a # c /\ Returns(a) /\ Returns(c)
        /\ cinner[a] = 1 /\ cret[a] = cw[a] /\ Len(cwrote[a]) = 1
        /\ cgot[c] = "hit" /\ craw[c] = cwrote[a][1].raw
        /\ cret[c] = [w |-> cw[a].w, err |-> Nil]
        /\ cw[a].w.desc # ""

\* the step in which call c carries out its GET
GetStep(c) == cpc[c] = "get" /\ cpc'[c] # "get"

\* C18: an entry is due to expire 5 minutes after the SET that wrote it; a GET
\* returns a value only while the entry is not yet due, and a GET that finds the
\* entry gone sends the call to the inner fetcher; a GET, hit or not, leaves every
\* entry and its expiry as they were; an entry changes only by a SET of this
\* program and disappears only when time reaches its expiry.
C18_ExpiryAfterFiveMinutes ==
    [][ /\ \A c \in 1..MaxCalls :
            /\ GetStep(c) =>
                 /\ cache' = cache
                 /\ (cgot'[c] = "hit") =>
                       /\ cache[<<"weather:", ccity[c]>>] # NoEntry
                       /\ now < cache[<<"weather:", ccity[c]>>].exp
                 /\ ( \/ cache[<<"weather:", ccity[c]>>] = NoEntry
                      \/ now >= cache[<<"weather:", ccity[c]>>].exp ) =>
                       (cpc'[c] = "inner" /\ cgot'[c] \in {"nil", "err"})
            /\ (StoreStep(c) /\ cwrote'[c] # cwrote[c]) =>
                 cache'[<<"weather:", ccity[c]>>].exp = now + 5
        /\ \A k \in Keys :
            /\ (cache[k] # NoEntry /\ cache'[k] = NoEntry) =>
                 (now' > now /\ now' >= cache[k].exp)
            /\ (cache'[k] # cache[k] /\ cache'[k] # NoEntry) =>
                 \E c \in 1..MaxCalls :
                    /\ StoreStep(c) /\ k = <<"weather:", ccity[c]>>
                    /\ cache'[k].exp = now + 5
            /\ (cache[k] # NoEntry) => now < cache[k].exp ]_vars

\* a call replaced the corrupt entry for "London" at time 0; 5 minutes later the
\* entry had gone, and the next call for "London" found nothing, invoked the inner
\* fetcher and wrote an entry due 5 minutes after that
C18_Witness ==
    \E a, b \in 1..MaxCalls :
        /\ a # b /\ ccity[a] = "London" /\ ccity[b] = "London"
        /\ Returns(a) /\ cgot[a] = "corrupt" /\ Len(cwrote[a]) = 1
        /\ cwrote[a][1].at = 0
        /\ Returns(b) /\ cgot[b] = "nil" /\ cinner[b] = 1 /\ Len(cwrote[b]) = 1
        /\ cwrote[b][1].at = TTL /\ now = TTL
        /\ cache[<<"weather:", "London">>].exp = TTL + TTL

\* C19: starting from an empty Redis, under every interleaving of the calls, each
\* entry present under "weather:"+X is the serialization of a reading that the
\* inner fetcher of some call for exactly the city X returned with a nil error (so
\* there is none before the first such fetch); a call writes only under the key of
\* its own city, and what its GET reads is what a call for the same city wrote.
C19_EntriesComeFromOwnCity ==
    /\ \A k \in DOMAIN cache :
          cache[k] # NoEntry =>
              \E c \in 1..MaxCalls :
                  /\ k = <<"weather:", ccity[c]>>
                  /\ cinner[c] = 1 /\ cw[c].err = Nil
                  /\ cache[k].raw = Marshal(cw[c].w).blob
                  /\ Unmarshal(cache[k].raw) = [ok |-> TRUE, w |-> cw[c].w]
                  /\ \E i \in 1..Len(cwrote[c]) :
                        cwrote[c][i] = [key |-> k, raw |-> cache[k].raw,
                                        at |-> cache[k].exp - 5]
    /\ \A c \in 1..MaxCalls :
          /\ \A i \in 1..Len(cwrote[c]) : cwrote[c][i].key = <<"weather:", ccity[c]>>
          /\ craw[c] # <<>> =>
                \E a \in 1..MaxCalls : \E i \in 1..Len(cwrote[a]) :
                    /\ ccity[a] = ccity[c]
                    /\ cwrote[a][i].raw = craw[c]

\* a call for "London" and a call for "london" overlapped, each fetched a reading
\* of its own, and each reading sits under the key of its own city
C19_Witness ==
    \E a, b \in 1..MaxCalls :
        /\ ccity[a] = "London" /\ ccity[b] = "london"
        /\ Returns(a) /\ Returns(b)
        /\ cgot[a] = "nil" /\ cgot[b] = "nil"
        /\ cw[a].w \in Readings /\ cw[b].w \in Readings /\ cw[a].w # cw[b].w
        /\ cache[<<"weather:", "London">>] # NoEntry
        /\ cache[<<"weather:", "London">>].raw = Marshal(cw[a].w).blob
        /\ cache[<<"weather:", "london">>] # NoEntry
        /\ cache[<<"weather:", "london">>].raw = Marshal(cw[b].w).blob

\* C20: BuildCachingFetcher returns a Fetcher with a nil error exactly when at
\* least one of the two API keys is non-empty and Redis answers the ping.  The
\* Fetcher it returns races the providers whose key is set, in the order
\* OpenWeatherMap, WeatherAPI.com, behind a cache of 5 minutes, and can be called;
\* with both keys empty it returns nil and "no weather providers available" with
\* both reasons; with a key set and Redis silent it returns nil and "redis ping
\* failed"; and a failed composition leaves no Fetcher to call.
C20_BuildIffProviderAndPing ==
    /\ bpc \in {"owm", "wap", "check", "ping"} =>
          (bret = NoBuild /\ \A c \in 1..MaxCalls : cpc[c] = "off")
    /\ bpc = "done" =>
          /\ (bret.err = Nil) <=> ((cfg.owm # "" \/ cfg.wap # "") /\ redisUp)
          /\ bret.err = Nil =>
                /\ bret.fetcher.inner =
                      (IF cfg.owm # "" THEN <<"openweathermap">> ELSE <<>>)
                      \o (IF cfg.wap # "" THEN <<"weatherapi">> ELSE <<>>)
                /\ bret.fetcher.ttl = 5
                /\ \A c \in 1..MaxCalls : cpc[c] # "off"
          /\ bret.err # Nil =>
                /\ bret.fetcher = NilFetcher
                /\ \A c \in 1..MaxCalls : cpc[c] = "off"
          /\ (cfg.owm = "" /\ cfg.wap = "") =>
                bret.err = <<"no weather providers available: ",
                             "owm: ", "OPENWEATHERMAP_ORG_API_KEY is not set", "; ",
                             "weatherapi: ",
                             "environment variable WEATHERAPI_COM_API_KEY is not set">>
          /\ ((cfg.owm # "" \/ cfg.wap # "") /\ ~redisUp) =>
                (Len(bret.err) >= 1 /\ bret.err[1] = "redis ping failed: ")

\* with only the WeatherAPI.com key set and Redis answering, the composition
\* succeeded over that one provider and a call on its Fetcher returned a reading
C20_Witness ==
    /\ bpc = "done" /\ cfg.owm = "" /\ cfg.wap # "" /\ redisUp
    /\ bret = [fetcher |-> [inner |-> <<"weatherapi">>, ttl |-> TTL], err |-> Nil]
    /\ berrs = <<<<"owm: ", "OPENWEATHERMAP_ORG_API_KEY is not set">>>>
    /\ \E c \in 1..MaxCalls : Returns(c) /\ cret[c].err = Nil /\ cret[c].w \in Readings

\* ---------------------------------------------------------------- subscriptions: properties
\* the step in which the row i becomes confirmed
ConfirmStep(i) == subs[i] # NoRow /\ ~subs[i].confirmed /\ subs'[i] # NoRow /\ subs'[i].confirmed

\* the minute boundary that follows the moment t
NextBoundary(t) ==
    [h |-> IF t.m = 59 THEN (IF t.h = 23 THEN 0 ELSE t.h + 1) ELSE t.h,
     m |-> IF t.m = 59 THEN 0 ELSE t.m + 1,
     s |-> 0]

\* C21: a Confirm that succeeds at time t stores the hour and the minute of
\* t + 1 minute as the schedule of the subscription; and the job that cron starts
\* at the first minute boundary after t, whose queries use the hour and minute of
\* its own time + 30 s, gets that subscription in its hourly batch if it is hourly
\* and in its daily batch if it is daily, provided the query succeeds and the
\* subscription is still there.
C21_FirstUpdateNextMinute ==
    [][ /\ \A i \in Ids :
            ConfirmStep(i) =>
                /\ subs'[i].sh = NextBoundary(clock).h
                /\ subs'[i].sm = NextBoundary(clock).m
                /\ sret' = [op |-> "confirm", err |-> Nil, mailed |-> FALSE]
        /\ \A i \in Ids :
            ( /\ subs[i] # NoRow /\ subs[i].confirmed
              /\ clock = NextBoundary(confAt[i]) )
            => /\ (spc = "hourly" /\ spc' = "hsend" /\ subs[i].freq = "hourly")
                    => i \in batch'
               /\ (spc = "daily" /\ spc' = "dsend" /\ subs[i].freq = "daily")
                    => i \in batch' ]_vars

\* a daily subscription confirmed at 23:59:30 is scheduled for 00:00 and is in
\* the daily batch of the job of 00:00:00
C21_Witness ==
    \E i \in Ids :
        /\ subs[i] # NoRow /\ subs[i].confirmed /\ subs[i].freq = "daily"
        /\ confAt[i] = [h |-> 23, m |-> 59, s |-> 30]
        /\ subs[i].sh = 0 /\ subs[i].sm = 0
        /\ clock = [h |-> 0, m |-> 0, s |-> 0]
        /\ spc = "dsend" /\ i \in batch

\* the hours and minutes a query can be asked about around the present
NearMinutes == {clock.m, (clock.m + 1) % 60, 0}

NearHours == {clock.h, (clock.h + 1) % 24, 0}

\* C22: HourlyBatch(m) is exactly the set of confirmed hourly subscriptions
\* scheduled at minute m and DailyBatch(h, m) exactly the set of confirmed daily
\* subscriptions scheduled at h:m; what the job of a minute obtains is that set
\* for its own hour and minute; a subscription enters a batch only while it is
\* confirmed, an update goes only to a member of the batch, and a confirmed
\* subscription never becomes unconfirmed.  So a subscription that was never
\* confirmed never gets a weather update.
C22_OnlyConfirmedInBatches ==
    [][ /\ \A m \in NearMinutes :
            HourlyBatch(m) =
                { i \in Ids : /\ subs[i] # NoRow /\ subs[i].confirmed = TRUE
                              /\ subs[i].freq = "hourly" /\ subs[i].sm = m }
        /\ \A h \in NearHours, m \in NearMinutes :
            DailyBatch(h, m) =
                { i \in Ids : /\ subs[i] # NoRow /\ subs[i].confirmed = TRUE
                              /\ subs[i].freq = "daily"
                              /\ subs[i].sh = h /\ subs[i].sm = m }
        /\ (spc = "hourly" /\ spc' = "hsend") =>
              batch' = { i \in Ids : /\ subs[i] # NoRow /\ subs[i].confirmed = TRUE
                                     /\ subs[i].freq = "hourly"
                                     /\ subs[i].sm = clock.m }
        /\ (spc = "daily" /\ spc' = "dsend") =>
              batch' = { i \in Ids : /\ subs[i] # NoRow /\ subs[i].confirmed = TRUE
                                     /\ subs[i].freq = "daily"
                                     /\ subs[i].sh = clock.h /\ subs[i].sm = clock.m }
        /\ \A i \in Ids :
              /\ (i \in batch' /\ i \notin batch) => (subs[i] # NoRow /\ subs[i].confirmed)
              /\ (i \in updated' /\ i \notin updated) => i \in batch
              /\ (subs[i] # NoRow /\ subs[i].confirmed /\ subs'[i] # NoRow) =>
                    subs'[i].confirmed ]_vars

\* at 00:00 an hourly subscription that was never confirmed still carries the
\* default schedule 00:00 and is left out of the hourly batch, in which a
\* subscription confirmed at 23:59 is, and the update went to that one alone
C22_Witness ==
    \E i, j \in Ids :
        /\ subs[i] # NoRow /\ ~subs[i].confirmed /\ subs[i].freq = "hourly"
        /\ subs[i].sm = 0 /\ confAt[i] = NoTime
        /\ subs[j] # NoRow /\ subs[j].confirmed /\ subs[j].freq = "hourly"
        /\ subs[j].sm = 0
        /\ clock = [h |-> 0, m |-> 0, s |-> 0] /\ spc = "daily"
        /\ batch = {j} /\ updated = {j}

\* the unconfirmed rows whose confirm_token is t
Confirmable(t) == { i \in Ids : subs[i] # NoRow /\ subs[i].ctoken = t /\ ~subs[i].confirmed }

\* C23: with the database answering, Confirm(T) for a well-formed T succeeds
\* exactly when an unconfirmed subscription has T as its confirm_token; it then
\* confirms that subscription alone and leaves no row with the token T, so T
\* works once.  When no row matches (a token never issued, a subscription
\* already confirmed or already deleted) it returns ErrTokenNotFound and the
\* table is unchanged.
C23_ConfirmTokenSingleUse ==
    [][ \A t \in TokenStrs :
          (ParsesAsUUID(t) /\ Confirm(t, TRUE)) =>
              /\ (sret'.err = Nil) <=> (Confirmable(t) # {})
              /\ Cardinality(Confirmable(t)) <= 1
              /\ Confirmable(t) = {} =>
                    (sret' = [op |-> "confirm", err |-> ErrTokenNotFound,
                              mailed |-> FALSE] /\ subs' = subs)
              /\ \A i \in Ids :
                    IF i \in Confirmable(t)
                    THEN /\ subs'[i].confirmed /\ subs'[i].ctoken = NullToken
                         /\ subs'[i].email = subs[i].email
                         /\ subs'[i].utoken = subs[i].utoken
                    ELSE subs'[i] = subs[i]
              /\ \A i \in Ids : subs'[i] = NoRow \/ subs'[i].ctoken # t ]_vars

\* every id has been used, one subscription is confirmed, one has been deleted,
\* and the last Confirm was answered ErrTokenNotFound
C23_Witness ==
    /\ nextId = MaxSubs
    /\ \E i \in Ids : subs[i] # NoRow /\ subs[i].confirmed /\ subs[i].ctoken = NullToken
    /\ \E i \in Ids : subs[i] = NoRow
    /\ sret = [op |-> "confirm", err |-> ErrTokenNotFound, mailed |-> FALSE]

\* the rows whose unsubscribe_token is t
Holders(t) == { i \in Ids : subs[i] # NoRow /\ subs[i].utoken = t }

\* the subscription i has been deleted
Deleted(i) == i <= nextId /\ subs[i] = NoRow

\* C24 as claimed: once a subscription has been deleted, no batch query returns
\* it and no weather update is sent to it.
C24_NoUpdateAfterUnsubscribe ==
    [][ \A i \in Ids :
          Deleted(i) =>
              /\ ~(i \in batch' /\ i \notin batch)
              /\ ~(i \in updated' /\ i \notin updated) ]_vars

\* C24, amended: with the database answering, Unsubscribe(T) for a well-formed T
\* succeeds exactly when a subscription has T as its unsubscribe_token, confirmed
\* or not, and deletes that subscription alone; with no such subscription (as in
\* a second Unsubscribe(T)) it returns ErrTokenNotFound and changes nothing.  A
\* deleted subscription never comes back and no later batch query returns it; the
\* one update it can still get is from a job whose query had returned it before
\* the deletion.
C24_UnsubscribeDeletes ==
    [][ /\ \A t \in TokenStrs :
            (ParsesAsUUID(t) /\ Unsubscribe(t, TRUE)) =>
                /\ (sret'.err = Nil) <=> (Holders(t) # {})
                /\ Cardinality(Holders(t)) <= 1
                /\ Holders(t) = {} =>
                      (sret' = [op |-> "unsubscribe", err |-> ErrTokenNotFound,
                                mailed |-> FALSE] /\ subs' = subs)
                /\ \A i \in Ids :
                      subs'[i] = (IF i \in Holders(t) THEN NoRow ELSE subs[i])
                /\ Holders(t)' = {}
        /\ \A i \in Ids :
            Deleted(i) =>
                /\ Deleted(i)'
                /\ ~(i \in batch' /\ i \notin batch)
                /\ (i \in updated' /\ i \notin updated) => i \in batch ]_vars

\* a subscription was deleted before it was ever confirmed, and a second
\* Unsubscribe was answered ErrTokenNotFound
C24_Witness ==
    \E i \in Ids :
        /\ Deleted(i)
        /\ \A j \in Ids : subs[j] = NoRow \/ ~subs[j].confirmed
        /\ batch = {} /\ updated = {} /\ elapsed = 0
        /\ sret = [op |-> "unsubscribe", err |-> ErrTokenNotFound, mailed |-> FALSE]

\* C25: with the weather fetch and the database answering, Subscribe(email, city)
\* returns ErrAlreadySubscribed exactly when the table holds a subscription with
\* the same email and the same city; in particular a subscribe of an email that
\* is there for another city only is accepted and creates a row.
C25_AlreadySubscribedIffSameEmailAndCity ==
    [][ \A e \in Emails, c \in SubCities, f \in Frequencies, sendOK \in BOOLEAN :
          Subscribe(e, c, f, TRUE, TRUE, sendOK) =>
              /\ (sret'.err = ErrAlreadySubscribed) <=>
                    (\E i \in Ids : /\ subs[i] # NoRow
                                    /\ subs[i].email = e /\ subs[i].city = c)
              /\ (~\E i \in Ids : /\ subs[i] # NoRow
                                  /\ subs[i].email = e /\ subs[i].city = c) =>
                    (\E i \in Ids : /\ subs[i] = NoRow /\ subs'[i] # NoRow
                                    /\ subs'[i].email = e /\ subs'[i].city = c) ]_vars

\* ---------------------------------------------------------------- RaceFetch: further properties
\* the positions in arrival order of the results that are successes
SuccessArrivals == {k \in 1..Len(arrival) : tres[arrival[k]].err = Nil}

\* the provider whose success entered the result channel first
FirstSuccess == arrival[CHOOSE k \in SuccessArrivals : \A j \in SuccessArrivals : k <= j]

\* C26: a RaceFetch call that returns a reading returns the reading of the success
\* that entered the result channel first; once the winner has been received, no
\* result that comes after it (a slower success, a failure, the late result of a
\* provider that did not stop on the cancel) changes the winner or the returned
\* value or makes the call an error; and no step of the race writes to the cache.
C26_FirstArrivalWins ==
    [][ /\ (rpc' \in {"won", "done"} /\ N >= 1 /\ WinnerReceived') =>
              /\ SuccessArrivals' # {}
              /\ winner' = tres'[FirstSuccess']
        /\ (rpc' = "done" /\ N >= 1 /\ WinnerReceived') =>
              ret' = [w |-> tres'[FirstSuccess'].w, err |-> Nil]
        /\ WinnerReceived => winner' = winner
        /\ rpc = "done" => ret' = ret /\ rpc' = "done"
        /\ cacheVars' = cacheVars ]_vars

\* two providers succeeded with different readings and a third failed; the call
\* returned the reading that arrived first, the other success and the failure
\* arrived after the winner
C26_Witness ==
    /\ RaceReturned /\ N = 3 /\ Len(arrival) = 3
    /\ tres[arrival[1]].err = Nil /\ tres[arrival[2]].err = Nil
    /\ tres[arrival[3]].err # Nil
    /\ tres[arrival[1]].w # tres[arrival[2]].w
    /\ received = 1
    /\ ret = [w |-> tres[arrival[1]].w, err |-> Nil]

\* C27: over a non-empty provider set, once the launching loop of a RaceFetch call
\* has ended every provider has a goroutine of its own and its FetchCurrent has
\* been invoked exactly once, with the city of the call and the ctx derived for
\* the call; while the loop runs this holds for the providers it has passed and
\* the others have not been invoked; no provider is ever invoked a second time.
C27_OneInvocationPerProvider ==
    /\ launched = Cardinality({i \in 1..N : task[i] # "unlaunched"})
    /\ \A i \in 1..N :
          /\ calls[i] = (IF task[i] = "unlaunched" THEN 0 ELSE 1)
          /\ args[i] = (IF task[i] = "unlaunched" THEN {}
                        ELSE {[ctx |-> DerivedCtx, city |-> rcity]})
          /\ task[i] # "unlaunched" <=> i <= launched
    /\ (N >= 1 /\ rpc \in {"collect", "won", "done"}) =>
          /\ launched = N
          /\ \A i \in 1..N : calls[i] = 1

\* a call over three providers has returned: each provider was invoked once, also
\* the one that failed and the one whose result came after the return
C27_Witness ==
    /\ RaceReturned /\ N = 3 /\ rcity = "London"
    /\ \A i \in 1..N : calls[i] = 1 /\ args[i] = {[ctx |-> DerivedCtx, city |-> "London"]}
    /\ \E i \in 1..N : Failed(i)
    /\ \E i \in 1..N : task[i] = "running"
    /\ ret.err = Nil

\* the ctx that provider i's FetchCurrent was invoked with is done
TaskCtxDone(i) ==
    \E a \in args[i] : IF a.ctx = DerivedCtx THEN CtxDone ELSE parentDone

\* C28: once the caller's ctx is cancelled or past its deadline, the ctx every
\* launched provider was invoked with is done, so a provider that waits on its ctx
\* can return; a provider that waits on its ctx returns only with the ctx error
\* and only when its ctx is done; when the caller's ctx is done and every provider
\* has reported a failure, the call returns the aggregate error of the failures
\* in arrival order; and the per-call ctx is done for no other reason than the
\* caller's ctx or the call's own cancel() after a winner or at the return, there
\* being no deadline that RaceFetch sets.
C28_CallerCancelPropagates ==
    /\ \A i \in 1..N :
          /\ (parentDone /\ task[i] # "unlaunched") => TaskCtxDone(i)
          /\ (parentDone /\ task[i] = "running" /\ fetchers[i].kind = "hang") =>
                ENABLED ProviderReturn(i)
          /\ (task[i] = "running" /\ fetchers[i].kind = "hang" /\ ~TaskCtxDone(i)) =>
                ~ENABLED ProviderReturn(i)
          /\ (Returned(i) /\ fetchers[i].kind = "hang") => tres[i].err = CtxCanceled
    /\ (RaceReturned /\ N >= 1 /\ parentDone /\ \A i \in 1..N : Failed(i)) =>
          ret = [w |-> ZeroWeather, err |-> <<"all providers failed: ">> \o ArrivalText]
    /\ (CtxDone /\ ~parentDone) =>
          /\ cancelCalled
          /\ WinnerReceived \/ RaceReturned

\* the caller cancelled while the call was collecting; the two providers that wait
\* on their ctx came back with the ctx error after the failure of the third, and
\* the call returned the aggregate of the three
C28_Witness ==
    /\ RaceReturned /\ N = 3 /\ parentDone
    /\ fetchers[1].kind = "hang" /\ fetchers[2].kind = "fail" /\ fetchers[3].kind = "hang"
    /\ arrival = <<2, 3, 1>>
    /\ ~WinnerReceived
    /\ ret.err = <<"all providers failed: ", "unexpected status 404 Not Found", "; ",
                   "context canceled", "; ", "context canceled">>

\* the FetchCurrent of every provider has returned
AllReturned == \A i \in 1..N : Returned(i)

\* RaceFetch is at r := <-ch and the channel is empty
BlockedOnReceive == rpc = "collect" /\ received < N /\ Len(ch) = 0

\* C29: (1) from the moment every provider's FetchCurrent has returned, and (2)
\* from the moment a success has been received whatever the other providers do,
\* the RaceFetch call eventually returns, the return after a success being open
\* to it with providers still in their calls; (3) a call over a non-empty provider set that has returned
\* without a success has the results of all its providers, so while no provider
\* has succeeded and one has not returned the call has not returned, and with the
\* channel empty it is blocked on the receive with no step of its own to take.
C29_Termination ==
    /\ (AllReturned \/ WinnerReceived) ~> RaceReturned
    /\ [](rpc = "won" => ENABLED RaceReturnWinner)
    /\ []((RaceReturned /\ N >= 1 /\ ~\E i \in 1..N : Succeeded(i)) =>
              \A i \in 1..N : Returned(i) /\ task[i] = "exited")
    /\ [](BlockedOnReceive =>
              ~ENABLED (RaceRecv \/ RaceReturnWinner \/ RaceReturnAllFailed))

\* two providers failed and both failures were received, the third never returns:
\* the call is blocked on the receive, also now that the caller has cancelled
C29_Witness ==
    /\ N = 3 /\ BlockedOnReceive /\ received = 2 /\ parentDone
    /\ fetchers[1].kind = "fail" /\ fetchers[2].kind = "never" /\ fetchers[3].kind = "fail"
    /\ task[2] = "running"
    /\ ret = NoResult

\* ---------------------------------------------------------------- provider clients: values
ProviderNames == {"openweathermap", "weatherapi"}

\* a JSON object is a record of the members it has; this one has none that a
\* client looks for
Absent == <<>>

\* encoding/json leaves the field of a member that the object lacks at its zero value
Member(obj, name, zero) == IF name \in DOMAIN obj THEN obj[name] ELSE zero

\* documents in the shape of api.openweathermap.org/data/2.5/weather
OwmDocs ==
    { [cod |-> 200, main |-> [temp |-> "-3", humidity |-> 80],
       weather |-> << [description |-> "Snow"] >>],
      [cod |-> 200, main |-> [temp |-> "-3", humidity |-> 80],
       weather |-> << [description |-> "Snow"], [description |-> "Mist"] >>],
      [cod |-> 200, main |-> [temp |-> "-3", humidity |-> 80], weather |-> <<>>],
      [cod |-> 200, main |-> [temp |-> "-3", humidity |-> 80]],
      [cod |-> 200, weather |-> << [description |-> "Snow"] >>],
      [cod |-> 200] }

\* documents in the shape of api.weatherapi.com/v1/current.json
WapDocs ==
    { [location |-> "Kyiv",
       current |-> [temp_c |-> "18.5", humidity |-> 59,
                    condition |-> [text |-> "Partly cloudy", code |-> 1003]]],
      [location |-> "Kyiv",
       current |-> [temp_c |-> "18.5", humidity |-> 59, condition |-> [code |-> 1003]]],
      [location |-> "Kyiv", current |-> [temp_c |-> "18.5", humidity |-> 59]],
      [location |-> "Kyiv", current |-> [is_day |-> 1]],
      [location |-> "Kyiv"] }

Docs == OwmDocs \cup WapDocs

\* the %d verb on a status code
StatusDigits(code) ==
    IF code = 200 THEN "200"
    ELSE IF code = 404 THEN "404"
    ELSE "500"

\* http.StatusText
StatusText(code) ==
    IF code = 200 THEN "OK"
    ELSE IF code = 404 THEN "Not Found"
    ELSE "Internal Server Error"

\* what http.DefaultClient.Do can hand back: a transport failure (a cancelled ctx
\* among its causes), or a response with a status and a body that is well-formed
\* JSON of the types the struct expects, or not
Responses ==
    [transport : {"ok", "failed"}, status : {200, 404, 500}, wellFormed : BOOLEAN,
     doc : Docs]

NoResponse == [transport |-> "none", status |-> 0, wellFormed |-> FALSE,
               doc |-> [cod |-> 0]]

\* openweathermap.Client.FetchCurrent from the Do on
OwmResult(r) ==
    IF r.transport # "ok"
    THEN [w |-> ZeroWeather, err |-> <<"openweathermap: HTTP request failed: ", "transport">>]
    ELSE IF r.status # 200
    THEN [w |-> ZeroWeather,
          err |-> <<"openweathermap: unexpected status ", StatusDigits(r.status), " ",
                  StatusText(r.status)>>]
    ELSE IF ~r.wellFormed
    THEN [w |-> ZeroWeather, err |-> <<"openweathermap: JSON decode error: ", "syntax">>]
    ELSE LET main == Member(r.doc, "main", Absent)
             weather == Member(r.doc, "weather", <<>>)
         IN  IF Len(weather) = 0
             THEN [w |-> ZeroWeather,
                   err |-> <<"openweathermap: no weather data in response">>]
             ELSE [w |-> [temp |-> Member(main, "temp", "0"),
                          humidity |-> Member(main, "humidity", 0),
                          desc |-> Member(weather[1], "description", "")],
                   err |-> Nil]

\* weatherapi.Client.FetchCurrent from the Do on
WapResult(r) ==
    IF r.transport # "ok"
    THEN [w |-> ZeroWeather, err |-> <<"weatherapi: HTTP request failed: ", "transport">>]
    ELSE IF r.status # 200
    THEN [w |-> ZeroWeather,
          err |-> <<"weatherapi: unexpected status ", StatusDigits(r.status), " ",
                  StatusText(r.status)>>]
    ELSE IF ~r.wellFormed
    THEN [w |-> ZeroWeather, err |-> <<"weatherapi: JSON decode error: ", "syntax">>]
    ELSE LET current == Member(r.doc, "current", Absent)
             condition == Member(current, "condition", Absent)
         IN  [w |-> [temp |-> Member(current, "temp_c", "0"),
                     humidity |-> Member(current, "humidity", 0),
                     desc |-> Member(condition, "text", "")],
              err |-> Nil]

\* ---------------------------------------------------------------- provider clients: actions
ProvInit ==
    /\ presp = [p \in ProviderNames |-> NoResponse]
    /\ pout = [p \in ProviderNames |-> NoResult]

\* one call of openweathermap.Client.FetchCurrent
OwmFetchCurrent ==
    /\ pout["openweathermap"] = NoResult
    /\ \E r \in Responses :
          /\ presp' = [presp EXCEPT !["openweathermap"] = r]
          /\ pout' = [pout EXCEPT !["openweathermap"] = OwmResult(r)]
    /\ UNCHANGED <<raceVars, cacheVars, buildVars, subVars, sideVars>>

\* one call of weatherapi.Client.FetchCurrent
WapFetchCurrent ==
    /\ pout["weatherapi"] = NoResult
    /\ \E r \in Responses :
          /\ presp' = [presp EXCEPT !["weatherapi"] = r]
          /\ pout' = [pout EXCEPT !["weatherapi"] = WapResult(r)]
    /\ UNCHANGED <<raceVars, cacheVars, buildVars, subVars, sideVars>>

ProvNext == OwmFetchCurrent \/ WapFetchCurrent

\* ---------------------------------------------------------------- provider clients: properties
\* the document has no conditions for the client to read: the weather list is
\* missing or empty (OpenWeatherMap), current or its condition or the text of the
\* condition is missing (WeatherAPI.com)
LacksConditions(p, doc) ==
    IF p = "openweathermap"
    THEN Len(Member(doc, "weather", <<>>)) = 0
    ELSE ~ ( /\ "current" \in DOMAIN doc
             /\ "condition" \in DOMAIN doc.current
             /\ "text" \in DOMAIN doc.current.condition )

\* C30: for each of the two clients, a FetchCurrent whose HTTP call came back with
\* status 200 and a body that decodes but has no conditions data returns an error.
C30_MissingConditionsIsFailure ==
    \A p \in ProviderNames :
        ( /\ pout[p] # NoResult
          /\ presp[p].transport = "ok" /\ presp[p].status = 200 /\ presp[p].wellFormed
          /\ LacksConditions(p, presp[p].doc) )
        => pout[p].err # Nil

\* ---------------------------------------------------------------- subscriptions: further properties
\* C31: a Subscribe whose weather fetch for the city fails returns ErrInvalidCity,
\* whatever the database and SMTP would have done, leaves the table as it was and
\* sends no confirmation email; and a row enters the table only in a Subscribe for
\* the row's city whose fetch succeeded, which does not return ErrInvalidCity.
C31_CityValidatedFirst ==
    [][ /\ \A e \in Emails, c \in SubCities, f \in Frequencies,
              dbOK \in BOOLEAN, sendOK \in BOOLEAN :
              Subscribe(e, c, f, FALSE, dbOK, sendOK) =>
                  /\ sret' = [op |-> "subscribe", err |-> ErrInvalidCity,
                              mailed |-> FALSE]
                  /\ subs' = subs /\ nextId' = nextId
        /\ \A i \in Ids :
              (subs[i] = NoRow /\ subs'[i] # NoRow) =>
                  /\ \E e \in Emails, f \in Frequencies, sendOK \in BOOLEAN :
                        Subscribe(e, subs'[i].city, f, TRUE, TRUE, sendOK)
                  /\ sret'.err # ErrInvalidCity
        /\ sret'.err = ErrInvalidCity => (subs' = subs /\ ~sret'.mailed) ]_vars

\* a subscribe was turned down for its city after another one had gone through:
\* the table holds the one row of before
C31_Witness ==
    /\ sret = [op |-> "subscribe", err |-> ErrInvalidCity, mailed |-> FALSE]
    /\ nextId = 1 /\ Rows = {1}
    /\ subs[1].email = "ann@example.com"

\* ---------------------------------------------------------------- the cron job over whole periods
\* number of ticks of cron that are followed: two days of minutes
MaxTicks == 2880

\* the clock at the tick before the first one followed
PeriodStarts == { [h |-> 23, m |-> 59, s |-> 0], [h |-> 10, m |-> 16, s |-> 0],
                  [h |-> 4, m |-> 30, s |-> 0] }

\* the scheduled_hour and scheduled_minute of the rows followed
Schedules == { <<0, 0>>, <<10, 17>>, <<23, 59>> }

\* a row as Create and Confirm leave it
ConfirmedRow(id, emailAddr, frequency, sched) ==
    [email |-> emailAddr, city |-> "Kyiv", freq |-> frequency, confirmed |-> TRUE,
     ctoken |-> NullToken, utoken |-> UnsubTokenOf(id),
     sh |-> sched[1], sm |-> sched[2]]

\* a table with one confirmed hourly and one confirmed daily subscription
PeriodInit ==
    /\ \E a \in Schedules, b \in Schedules :
          subs = [i \in Ids |->
                    IF i = 1 THEN ConfirmedRow(1, "ann@example.com", "hourly", a)
                    ELSE IF i = 2 THEN ConfirmedRow(2, "bob@example.com", "daily", b)
                    ELSE NoRow]
    /\ nextId = 2
    /\ clock \in PeriodStarts
    /\ elapsed = 0
    /\ spc = "wait"
    /\ batch = {}
    /\ updated = {}
    /\ confAt = [i \in Ids |-> NoTime]
    /\ sret = NoCall
    /\ lastSel = [i \in Ids |-> 0 - 1]
    /\ dbFailed = FALSE

\* scheduler.go 52-80: cron fires at second 0 of the next minute and the job runs
\* to its end: both batch queries (hOK, dOK: the query is answered) and the
\* sending to those that were selected.  The ticks are followed up to the first
\* one with a query that fails.
CronTick(hOK, dOK) ==
    /\ elapsed < MaxTicks
    /\ ~dbFailed
    /\ spc = "wait"
    /\ LET tick == [PlusMinute(clock) EXCEPT !.s = 0]
           instant == PlusHalfMinute(tick)
           hourlySubs == IF hOK THEN HourlyBatch(instant.m) ELSE {}
           dailySubs == IF dOK THEN DailyBatch(instant.h, instant.m) ELSE {}
       IN  /\ clock' = tick
           /\ elapsed' = elapsed + 1
           /\ batch' = hourlySubs \cup dailySubs
           /\ lastSel' = [i \in Ids |->
                            IF i \in hourlySubs \cup dailySubs
                            THEN elapsed + 1 ELSE lastSel[i]]
           /\ dbFailed' = (dbFailed \/ ~hOK \/ ~dOK)
           /\ \E got \in SUBSET (hourlySubs \cup dailySubs) : updated' = got
    /\ UNCHANGED <<subs, nextId, spc, confAt, sret, updVars, smtpVars, httpVars,
                   raceVars, cacheVars, buildVars, provVars>>

PeriodNext == \E hOK \in BOOLEAN, dOK \in BOOLEAN : CronTick(hOK, dOK)

\* the number of ticks in the period of row i
Period(i) == IF subs[i].freq = "hourly" THEN 60 ELSE 1440

\* the tick that has just fired is the one of row i's schedule
OwnTick(i) ==
    /\ clock.m = subs[i].sm
    /\ subs[i].freq = "daily" => clock.h = subs[i].sh

MaxBatch == 3

BatchEmails == << "ann@example.com", "bob@example.com", "cat@example.com",
                  "dan@example.com", "eve@example.com" >>

BaseURL == "https://weather.example.com"

\* the k-th subscription of a batch: a row of the table, which has its own email
\* and its own unsubscribe token
BatchRow(k, city) ==
    [email |-> BatchEmails[k], city |-> city, utoken |-> UnsubTokenOf(k)]

\* the batches a query can return
Batches ==
    UNION { { b \in [1..n -> { BatchRow(k, c) : k \in 1..n, c \in SubCities }] :
                \A k \in 1..n : b[k].email = BatchEmails[k] } : n \in 0..MaxBatch }

\* what fetcher.FetchCurrent can return to sendWeatherUpdates
FetchResults ==
    { [w |-> r, err |-> Nil] : r \in Readings }
    \cup { [w |-> ZeroWeather, err |-> AggError(<< <<"timeout">> >>)] }

\* the %.2f verb on the temperatures in use
TwoDecimals(temp) ==
    IF temp = "18.5" THEN "18.50"
    ELSE IF temp = "-3" THEN "-3.00"
    ELSE "0.00"

\* scheduler.go 118-136: the message for a subscription and its reading
UpdateMessage(sub, w) ==
    [to |-> <<sub.email>>,
     subject |-> <<"Weather update for ", sub.city>>,
     body |-> [city |-> sub.city, temp |-> TwoDecimals(w.temp),
               humidity |-> w.humidity, desc |-> w.desc,
               unsubURL |-> <<BaseURL, "/api/unsubscribe/", sub.utoken>>]]

UpdInit ==
    /\ ubatch \in Batches
    /\ upc = "start"
    /\ upos = 0
    /\ ufetched = <<>>
    /\ umsgs = <<>>
    /\ ucalls = <<>>

\* scheduler.go 102-104: an empty batch ends the call
UpdEnter ==
    /\ upc = "start"
    /\ upc' = IF Len(ubatch) = 0 THEN "done" ELSE "loop"
    /\ UNCHANGED <<ubatch, upos, ufetched, umsgs, ucalls, tickVars, smtpVars, httpVars,
                   raceVars, cacheVars, buildVars, subVars, provVars>>

\* mutant: a failed fetch ends the loop
UpdFetchFailureEndsLoop(r) ==
    /\ upc = "loop"
    /\ upos < Len(ubatch)
    /\ upos' = IF r.err # Nil THEN Len(ubatch) ELSE upos + 1
    /\ ufetched' = Append(ufetched, r)
    /\ umsgs' = IF r.err # Nil THEN umsgs
                ELSE Append(umsgs, UpdateMessage(ubatch[upos + 1], r.w))
    /\ UNCHANGED <<ubatch, upc, ucalls, tickVars, smtpVars, httpVars,
                   raceVars, cacheVars, buildVars, subVars, provVars>>

\* scheduler.go 107-137: one iteration of the range loop; r is what FetchCurrent
\* returned for the city of the subscription
UpdFetch(r) ==
    /\ upc = "loop"
    /\ upos < Len(ubatch)
    /\ upos' = upos + 1
    /\ ufetched' = Append(ufetched, r)
    /\ umsgs' = IF r.err # Nil THEN umsgs
                ELSE Append(umsgs, UpdateMessage(ubatch[upos + 1], r.w))
    /\ UNCHANGED <<ubatch, upc, ucalls, tickVars, smtpVars, httpVars,
                   raceVars, cacheVars, buildVars, subVars, provVars>>

\* scheduler.go 139-146: after the loop; the outcome of SendBatch is only logged
UpdSend ==
    /\ upc = "loop"
    /\ upos >= Len(ubatch)
    /\ ucalls' = IF Len(umsgs) = 0 THEN ucalls ELSE Append(ucalls, umsgs)
    /\ upc' = "done"
    /\ UNCHANGED <<ubatch, upos, ufetched, umsgs, tickVars, smtpVars, httpVars,
                   raceVars, cacheVars, buildVars, subVars, provVars>>

UpdNext ==
    \/ UpdEnter
    \/ \E r \in FetchResults : UpdFetch(r)
    \/ UpdSend

\* the positions in the batch whose fetch succeeded
Fetched == { k \in 1..Len(ufetched) : ufetched[k].err = Nil }

\* C33: when sendWeatherUpdates has returned, FetchCurrent has been called once for
\* every subscription of the batch, failed ones not ending the loop; SendBatch
\* has been called at most once, and not at all when no fetch succeeded (an
\* empty batch included); its one call carries, in batch order, exactly one
\* message for each subscription whose fetch succeeded, addressed to that
\* subscription alone, with its city, its reading and its unsubscribe token.
C33_FetchFailuresIsolated ==
    /\ Len(ucalls) <= 1
    /\ upc = "done" =>
          /\ Len(ufetched) = Len(ubatch)
          /\ (Fetched = {}) <=> (ucalls = <<>>)
          /\ \A c \in 1..Len(ucalls) :
                /\ Len(ucalls[c]) = Cardinality(Fetched)
                /\ \A k \in Fetched :
                      LET j == Cardinality({ i \in Fetched : i <= k })
                      IN  ucalls[c][j] = UpdateMessage(ubatch[k], ufetched[k].w)

\* the fetch for the second of three subscriptions failed: one SendBatch with the
\* messages of the first and the third
C33_Witness ==
    /\ upc = "done" /\ Len(ubatch) = 3
    /\ Fetched = {1, 3}
    /\ Len(ucalls) = 1 /\ Len(ucalls[1]) = 2
    /\ ucalls[1][2].to = <<"cat@example.com">>
    /\ ucalls[1][2].body.unsubURL[3] = UnsubTokenOf(3)

\* ---------------------------------------------------------------- SMTPSender.SendBatch
\* number of messages in a batch
MaxMsgs == 3

\* number of recipients of a message
MaxRcpts == 2

\* s.from
From == "weather@example.com"

Recipients == << "ann@example.com", "bob@example.com", "cat@example.com" >>

\* the i-th message of a batch, with n recipients
Message(i, n) ==
    [to |-> [j \in 1..n |-> Recipients[j]],
     subject |-> IF i = 1 THEN "Confirm your weather subscription"
                 ELSE "Weather update for Kyiv"]

\* the batches handed to SendBatch
MsgBatches ==
    UNION { { b \in [1..n -> { Message(i, k) : i \in 1..n, k \in 1..MaxRcpts }] :
                \A i \in 1..n : b[i].subject = Message(i, 1).subject } : n \in 0..MaxMsgs }

\* implicit TLS, or a port on which the session is upgraded with STARTTLS
Ports == {465, 587}

SmtpInit ==
    /\ mport \in Ports
    /\ mbatch \in MsgBatches
    /\ mpc = "dial"
    /\ mi = 0 /\ mj = 0
    /\ mlog = <<>>
    /\ msent = {}
    /\ mpend = <<"none">>
    /\ mret = <<"none">>

\* the frame of a step of SendBatch
SmtpFrame ==
    UNCHANGED <<mport, mbatch, tickVars, updVars, httpVars,
                raceVars, cacheVars, buildVars, subVars, provVars>>

\* SendBatch returns e before the defer of line 123 is in place
ReturnEarly(e) ==
    /\ mret' = e
    /\ mpc' = "done"
    /\ UNCHANGED <<mi, mj, msent, mpend>>

\* mutant: the defer is placed after the authentication, whose failure returns
\* without it
ReturnThroughDeferNotAfterAuth(e) ==
    /\ IF mpc = "auth"
       THEN mret' = e /\ mpc' = "done" /\ UNCHANGED mpend
       ELSE mpend' = e /\ mpc' = "quit" /\ UNCHANGED mret
    /\ UNCHANGED <<mi, mj, msent>>

\* mutant: a message that fails is left and the loop goes on with the next one
ReturnThroughDeferNextMessage(e) ==
    /\ IF mi >= 1 /\ mi < Len(mbatch) /\ e # Nil
       THEN mpc' = "reset" /\ mi' = mi + 1 /\ mj' = 0 /\ UNCHANGED <<mpend, msent>>
       ELSE mpend' = e /\ mpc' = "quit" /\ UNCHANGED <<mi, mj, msent>>
    /\ UNCHANGED mret

\* a return statement of SendBatch after line 123: the result is set to e and the
\* deferred function is run next
ReturnThroughDefer(e) ==
    /\ mpend' = e
    /\ mpc' = "quit"
    /\ UNCHANGED <<mi, mj, msent, mret>>

\* email.go 63-82: tls.Dial or net.Dial
SmtpDial(ok) ==
    /\ mpc = "dial"
    /\ mlog' = Append(mlog, <<"CONNECT", "">>)
    /\ IF ok
       THEN mpc' = "newclient" /\ UNCHANGED <<mi, mj, msent, mpend, mret>>
       ELSE ReturnEarly(<<"failed to dial SMTP: ", "connection refused">>)
    /\ SmtpFrame

\* email.go 85-93: smtp.NewClient; the connection is closed when it fails
SmtpNewClient(ok) ==
    /\ mpc = "newclient"
    /\ IF ok
       THEN /\ mpc' = IF mport = 465 THEN "auth" ELSE "ext"
            /\ UNCHANGED <<mlog, mi, mj, msent, mpend, mret>>
       ELSE /\ mlog' = Append(mlog, <<"CLOSE", "">>)
            /\ ReturnEarly(<<"failed to create SMTP client: ", "bad greeting">>)
    /\ SmtpFrame

\* email.go 96-104: the server has to offer STARTTLS
SmtpExtension(ok) ==
    /\ mpc = "ext"
    /\ IF ok
       THEN mpc' = "starttls" /\ UNCHANGED <<mlog, mi, mj, msent, mpend, mret>>
       ELSE /\ mlog' = Append(mlog, <<"CLOSE", "">>)
            /\ ReturnEarly(<<"SMTP server does not support STARTTLS">>)
    /\ SmtpFrame

\* email.go 105-111: client.StartTLS
SmtpStartTLS(ok) ==
    /\ mpc = "starttls"
    /\ IF ok
       THEN /\ mlog' = Append(mlog, <<"STARTTLS", "">>)
            /\ mpc' = "auth"
            /\ UNCHANGED <<mi, mj, msent, mpend, mret>>
       ELSE /\ mlog' = mlog \o << <<"STARTTLS", "">>, <<"CLOSE", "">> >>
            /\ ReturnEarly(<<"failed to start TLS: ", "handshake failure">>)
    /\ SmtpFrame

\* email.go 130-133 and 136, 148-149: client.Auth; with nothing to send the loop
\* is passed at once
SmtpAuth(ok) ==
    /\ mpc = "auth"
    /\ mlog' = Append(mlog, <<"AUTH", "">>)
    /\ IF ~ok
       THEN ReturnThroughDefer(<<"failed to authenticate: ", "535">>)
       ELSE IF Len(mbatch) = 0
       THEN ReturnThroughDefer(Nil)
       ELSE /\ mpc' = "reset" /\ mi' = 1 /\ mj' = 0
            /\ UNCHANGED <<msent, mpend, mret>>
    /\ SmtpFrame

\* email.go 137-140: client.Reset before message mi
SmtpReset(ok) ==
    /\ mpc = "reset"
    /\ mlog' = Append(mlog, <<"RSET", "">>)
    /\ IF ok
       THEN mpc' = "mail" /\ UNCHANGED <<mi, mj, msent, mpend, mret>>
       ELSE ReturnThroughDefer(<<"failed to reset SMTP session: ", "421">>)
    /\ SmtpFrame

\* email.go 155-158: client.Mail
SmtpMail(ok) ==
    /\ mpc = "mail"
    /\ mlog' = Append(mlog, <<"MAIL FROM", From>>)
    /\ IF ok
       THEN mpc' = "rcpt" /\ UNCHANGED <<mi, mj, msent, mpend, mret>>
       ELSE ReturnThroughDefer(<<"failed to set MAIL FROM: ", "550">>)
    /\ SmtpFrame

\* email.go 160-165: client.Rcpt for the next recipient of message mi
SmtpRcpt(ok) ==
    /\ mpc = "rcpt"
    /\ mj < Len(mbatch[mi].to)
    /\ mlog' = Append(mlog, <<"RCPT TO", mbatch[mi].to[mj + 1]>>)
    /\ IF ok
       THEN /\ mj' = mj + 1
            /\ mpc' = IF mj + 1 = Len(mbatch[mi].to) THEN "data" ELSE "rcpt"
            /\ UNCHANGED <<mi, msent, mpend, mret>>
       ELSE ReturnThroughDefer(<<"failed to add RCPT TO ", mbatch[mi].to[mj + 1], ": ",
                                 "550">>)
    /\ SmtpFrame

\* email.go 167-171: client.Data
SmtpData(ok) ==
    /\ mpc = "data"
    /\ mlog' = Append(mlog, <<"DATA", mbatch[mi].subject>>)
    /\ IF ok
       THEN mpc' = "write" /\ UNCHANGED <<mi, mj, msent, mpend, mret>>
       ELSE ReturnThroughDefer(<<"failed to start DATA command: ", "554">>)
    /\ SmtpFrame

\* email.go 185-192: wc.Write of the headers and the body
SmtpWrite(ok) ==
    /\ mpc = "write"
    /\ IF ok
       THEN mpc' = "close" /\ UNCHANGED <<mi, mj, msent, mpend, mret>>
       ELSE ReturnThroughDefer(<<"failed to write message body: ", "broken pipe">>)
    /\ UNCHANGED mlog
    /\ SmtpFrame

\* email.go 194-200 and 136, 145-149: wc.Close ends the message; after the last
\* one SendBatch returns nil
SmtpClose(ok) ==
    /\ mpc = "close"
    /\ IF ~ok
       THEN ReturnThroughDefer(<<"failed to close DATA writer: ", "554">>)
       ELSE IF mi = Len(mbatch)
       THEN /\ mpend' = Nil /\ mpc' = "quit" /\ msent' = msent \cup {mi}
            /\ UNCHANGED <<mi, mj, mret>>
       ELSE /\ msent' = msent \cup {mi}
            /\ mpc' = "reset" /\ mi' = mi + 1 /\ mj' = 0
            /\ UNCHANGED <<mpend, mret>>
    /\ UNCHANGED mlog
    /\ SmtpFrame

\* email.go 123-128: the deferred function: client.Quit, whose error becomes the
\* result only when there was none
SmtpQuit(ok) ==
    /\ mpc = "quit"
    /\ mlog' = Append(mlog, <<"QUIT", "">>)
    /\ mret' = IF ~ok /\ mpend = Nil
               THEN <<"failed to close SMTP connection: ", "broken pipe">>
               ELSE mpend
    /\ mpc' = "done"
    /\ UNCHANGED <<mi, mj, msent, mpend>>
    /\ SmtpFrame

SmtpNext ==
    \E ok \in BOOLEAN :
        \/ SmtpDial(ok)
        \/ SmtpNewClient(ok)
        \/ SmtpExtension(ok)
        \/ SmtpStartTLS(ok)
        \/ SmtpAuth(ok)
        \/ SmtpReset(ok)
        \/ SmtpMail(ok)
        \/ SmtpRcpt(ok)
        \/ SmtpData(ok)
        \/ SmtpWrite(ok)
        \/ SmtpClose(ok)
        \/ SmtpQuit(ok)

\* ---------------------------------------------------------------- SMTPSender.SendBatch: properties
\* number of calls of the kind verb made so far
Issued(verb) == Cardinality({ k \in 1..Len(mlog) : mlog[k][1] = verb })

\* createClient has returned a client to SendBatch
ClientCreated == mpc \in {"auth", "reset", "mail", "rcpt", "data", "write", "close", "quit"}
                 \/ Issued("AUTH") >= 1

\* the commands of message i: RSET, MAIL FROM, RCPT TO for each recipient, DATA
MessageCmds(i) ==
    << <<"RSET", "">>, <<"MAIL FROM", From>> >>
    \o [j \in 1..Len(mbatch[i].to) |-> <<"RCPT TO", mbatch[i].to[j]>>]
    \o << <<"DATA", mbatch[i].subject>> >>

RECURSIVE BatchCmds(_)
\* the commands of the first n messages, in input order
BatchCmds(n) == IF n = 0 THEN <<>> ELSE BatchCmds(n - 1) \o MessageCmds(n)

\* the whole session of a SendBatch in which nothing fails, up to the QUIT
FullSession ==
    << <<"CONNECT", "">> >>
    \o (IF mport = 465 THEN <<>> ELSE << <<"STARTTLS", "">> >>)
    \o << <<"AUTH", "">> >>
    \o BatchCmds(Len(mbatch))

IsPrefix(a, b) == Len(a) <= Len(b) /\ a = SubSeq(b, 1, Len(a))

\* C34: once createClient has handed SendBatch a client, the calls made on the
\* session are, in this order, a beginning of: connect (with STARTTLS off port
\* 465), AUTH once, then for each message in input order RSET, MAIL FROM, RCPT TO
\* for each recipient in order, DATA; and when SendBatch has returned, with nil
\* or with any error of the session, that beginning is followed by exactly one
\* QUIT, which is the last call.
C34_SessionOrder ==
    ClientCreated =>
        /\ Issued("AUTH") <= 1
        /\ Issued("QUIT") <= 1
        /\ mpc # "done" => (Issued("QUIT") = 0 /\ IsPrefix(mlog, FullSession))
        /\ mpc = "done" =>
              /\ Issued("AUTH") = 1
              /\ Issued("QUIT") = 1
              /\ mlog[Len(mlog)] = <<"QUIT", "">>
              /\ IsPrefix(SubSeq(mlog, 1, Len(mlog) - 1), FullSession)

\* a session on port 587 with two messages, the second to two recipients, in
\* which the second RCPT TO of the second message failed: QUIT follows it
C34_Witness ==
    /\ mpc = "done" /\ mport = 587 /\ Len(mbatch) = 2
    /\ mlog = << <<"CONNECT", "">>, <<"STARTTLS", "">>, <<"AUTH", "">>,
                 <<"RSET", "">>, <<"MAIL FROM", From>>,
                 <<"RCPT TO", "ann@example.com">>,
                 <<"DATA", "Confirm your weather subscription">>,
                 <<"RSET", "">>, <<"MAIL FROM", From>>,
                 <<"RCPT TO", "ann@example.com">>, <<"RCPT TO", "bob@example.com">>,
                 <<"QUIT", "">> >>
    /\ mret # Nil

\* C35: SendBatch returns nil exactly when no return statement set an error and
\* the QUIT succeeded, and then every message of the batch has been sent; when a
\* call made for message i fails, the result is that error, the messages before
\* i have been sent, i itself and the ones after it have not, and no call is made
\* for a message after i: QUIT is all that follows; a message once sent stays
\* sent.
C35_StopsAtFirstFailure ==
    [][ /\ \A ok \in BOOLEAN :
              SmtpQuit(ok) =>
                  /\ (mret' = Nil) <=> (ok /\ mpend = Nil)
                  /\ mpend = Nil => msent = 1..Len(mbatch)
                  /\ mpend # Nil => mret' = mpend
        /\ (mpc' = "quit" /\ mpend' # Nil /\ mi' >= 1) =>
              /\ msent' = 1..(mi' - 1)
              /\ Issued("RSET")' = mi'
              /\ Issued("DATA")' <= mi'
        /\ mpc = "quit" => (mpc' = "done" /\ mlog' = Append(mlog, <<"QUIT", "">>))
        /\ msent \subseteq msent' ]_vars

\* the second of three messages was refused at its DATA: the first one is sent,
\* the third one was never begun, and SendBatch returned the error
C35_Witness ==
    /\ mpc = "done" /\ Len(mbatch) = 3
    /\ mi = 2 /\ msent = {1}
    /\ Issued("RSET") = 2 /\ Issued("DATA") = 2
    /\ mret = <<"failed to start DATA command: ", "554">>

\* ---------------------------------------------------------------- the HTTP handlers: properties
\* the service call of a token handler's request failed, or was not made because
\* the token is empty (to be read in the step of the handler)
RequestFailed(t) == t = EmptyToken \/ sret'.err # Nil

\* C36: ConfirmHandler and UnsubscribeHandler answer every outcome of the service:
\* 200 exactly when the call succeeded, 400 for an empty token or ErrInvalidToken,
\* 404 for ErrTokenNotFound, and for every error a written error response, never
\* a success
C36_EveryOutcomeAnswered ==
    [][\A t \in PathTokens, dbOK \in BOOLEAN :
         (ConfirmHandler(t, dbOK) \/ UnsubscribeHandler(t, dbOK)) =>
            /\ ~RequestFailed(t) => hresp'.written /\ hresp'.status = 200
            /\ (t = EmptyToken \/ ErrorsIs(sret'.err, ErrInvalidToken)) =>
                  hresp'.written /\ hresp'.status = 400
            /\ (t # EmptyToken /\ ErrorsIs(sret'.err, ErrTokenNotFound)) =>
                  hresp'.written /\ hresp'.status = 404
            /\ RequestFailed(t) =>
                  hresp'.written /\ hresp'.status \in 400..599]_vars

\* what Subscribe returns when SendBatch fails
SendBatchFailed == <<"email.SendBatch: ">> \o SmtpDown

CreateStep(i) == subs[i] = NoRow /\ subs'[i] # NoRow

\* C38: in every state a subscription is confirmed exactly when its confirm_token
\* is NULL: a row enters the table unconfirmed with a confirm token no row holds,
\* the step that confirms it clears the token, a row changes only in that step,
\* and a confirmed row stays confirmed as long as it is in the table
C38_ConfirmedIffTokenNull ==
    /\ [](\A i \in Rows : subs[i].confirmed <=> subs[i].ctoken = NullToken)
    /\ [][\A i \in Ids :
            /\ CreateStep(i) =>
                  /\ ~subs'[i].confirmed
                  /\ ParsesAsUUID(subs'[i].ctoken)
                  /\ \A j \in Ids \ {i} : subs'[j].ctoken # subs'[i].ctoken
                  /\ sret'.op = "subscribe"
            /\ ConfirmStep(i) =>
                  /\ subs'[i].ctoken = NullToken
                  /\ sret' = [op |-> "confirm", err |-> Nil, mailed |-> FALSE]
            /\ (i \in Rows /\ subs'[i] # NoRow /\ subs'[i] # subs[i]) => ConfirmStep(i)
            /\ (i \in Rows /\ subs[i].confirmed /\ subs'[i] # NoRow) =>
                  subs'[i].confirmed]_vars

\* a confirmed row without a token beside an unconfirmed one with its token,
\* right after the Confirm
C38_Witness ==
    /\ sret.op = "confirm" /\ sret.err = Nil
    /\ Rows = {1, 2}
    /\ subs[1].confirmed /\ subs[1].ctoken = NullToken
    /\ ~subs[2].confirmed /\ subs[2].ctoken = ConfirmTokenOf(2)

\* the race side at rest
RaceIdle ==
    /\ fetchers = <<>>
    /\ parentDone = FALSE /\ ctxCreated = FALSE /\ cancelCalled = FALSE
    /\ ch = <<>> /\ chCap = 0
    /\ task = <<>> /\ tres = <<>> /\ launched = 0
    /\ rpc = "idle"
    /\ received = 0 /\ winner = NoResult /\ errs = <<>> /\ ret = NoResult
    /\ arrival = <<>> /\ calls = <<>>
    /\ rcity = "" /\ args = <<>>

\* a Redis that holds nothing yet
CacheInitFresh == CacheInit /\ \A k \in Keys : cache[k] = NoEntry

\* the cache side at rest
CacheIdle ==
    /\ cache = [k \in Keys |-> NoEntry]
    /\ now = 0
    /\ cpc = [c \in 1..MaxCalls |-> "off"]
    /\ ccity = [c \in 1..MaxCalls |-> ""]
    /\ craw = [c \in 1..MaxCalls |-> <<>>]
    /\ cheld = [c \in 1..MaxCalls |-> FALSE]
    /\ cbad = [c \in 1..MaxCalls |-> FALSE]
    /\ cgot = [c \in 1..MaxCalls |-> "none"]
    /\ cw = [c \in 1..MaxCalls |-> NoResult]
    /\ cret = [c \in 1..MaxCalls |-> NoResult]
    /\ cinner = [c \in 1..MaxCalls |-> 0]
    /\ cwrote = [c \in 1..MaxCalls |-> <<>>]

\* no composition in progress
BuildIdle ==
    /\ cfg = [owm |-> "", wap |-> ""]
    /\ redisUp = FALSE
    /\ bpc = "off"
    /\ bfetchers = <<>>
    /\ berrs = <<>>
    /\ bret = NoBuild

\* no period is being followed
TickIdle ==
    /\ lastSel = [i \in Ids |-> 0 - 1]
    /\ dbFailed = FALSE

\* no sendWeatherUpdates call
UpdIdle ==
    /\ ubatch = <<>> /\ upc = "off" /\ upos = 0
    /\ ufetched = <<>> /\ umsgs = <<>> /\ ucalls = <<>>

\* no SendBatch call
SmtpIdle ==
    /\ mport = 0 /\ mbatch = <<>> /\ mpc = "off" /\ mi = 0 /\ mj = 0
    /\ mlog = <<>> /\ msent = {} /\ mpend = <<"none">> /\ mret = <<"none">>

\* no request
HttpIdle == hresp = NoRequest

SideIdle == TickIdle /\ UpdIdle /\ SmtpIdle /\ HttpIdle

\* the provider clients at rest
ProvIdle ==
    /\ presp = [p \in ProviderNames |-> NoResponse]
    /\ pout = [p \in ProviderNames |-> NoResult]

\* no table, no scheduler
SubsIdle ==
    /\ subs = [i \in Ids |-> NoRow]
    /\ nextId = 0
    /\ clock = [h |-> 0, m |-> 0, s |-> 30]
    /\ elapsed = 0
    /\ spc = "off"
    /\ batch = {} /\ updated = {}
    /\ confAt = [i \in Ids |-> NoTime]
    /\ sret = NoCall

\* ---------------------------------------------------------------- specifications
\* one RaceFetch call over every provider set of up to MaxProviders providers,
\* for one city
Init == RaceInit /\ rcity = "Kyiv" /\ CacheIdle /\ BuildIdle /\ SubsIdle /\ ProvIdle /\ SideIdle

Next == RaceNext

Spec == Init /\ [][Next]_vars

\* the steps that do not wait for anyone: those of RaceFetch itself, the sends of
\* the goroutines, and the return of a provider that is not of the kind that
\* ignores its ctx
ScheduledStep ==
    \/ RaceEnter
    \/ RaceLaunch
    \/ RaceRecv
    \/ RaceReturnWinner
    \/ RaceReturnAllFailed
    \/ \E i \in 1..N : TaskSend(i)
    \/ \E i \in 1..N : fetchers[i].kind # "never" /\ ProviderReturn(i)

\* the Go scheduler does not leave all runnable goroutines waiting forever: while
\* one of these steps can be taken, one of them is taken.  The caller need not
\* ever cancel.
Fairness == WF_vars(ScheduledStep)

\* every provider that succeeds does so with the same reading
OneReading == \A i \in 1..N : fetchers[i].kind = "ok" => fetchers[i].w.desc = "Snow"

\* termination does not depend on the values read
InitFair == Init /\ OneReading

\* one RaceFetch call under a fair scheduler
SpecFair == InitFair /\ [][Next]_vars /\ Fairness

\* one RaceFetch call for each city; what the providers are invoked with does
\* not depend on the values read
InitArgs == RaceInit /\ OneReading /\ CacheIdle /\ BuildIdle /\ SubsIdle /\ ProvIdle /\ SideIdle

SpecArgs == InitArgs /\ [][Next]_vars

\* MaxCalls concurrent CachingFetcher.FetchCurrent calls on one Redis
InitCache == CacheInit /\ RaceIdle /\ BuildIdle /\ SubsIdle /\ ProvIdle /\ SideIdle

SpecCache == InitCache /\ [][CacheNext]_vars

\* the same calls on a Redis that starts empty
InitCacheFresh == CacheInitFresh /\ RaceIdle /\ BuildIdle /\ SubsIdle /\ ProvIdle /\ SideIdle

SpecCacheFresh == InitCacheFresh /\ [][CacheNext]_vars

\* one BuildCachingFetcher call, and then the calls on the Fetcher it returned
InitBuild == BuildInit /\ RaceIdle /\ CacheIdle /\ SubsIdle /\ ProvIdle /\ SideIdle

NextBuild == BuildNext \/ CacheNext

SpecBuild == InitBuild /\ [][NextBuild]_vars

\* the API service on the subscriptions table, at one moment
InitSubs == SubsInit /\ RaceIdle /\ CacheIdle /\ BuildIdle /\ ProvIdle /\ SideIdle

SpecSubs == InitSubs /\ [][ApiNext]_vars

\* the scheduler and the API service on one subscriptions table, while time passes
SpecSched == InitSubs /\ [][SchedNext]_vars

\* one FetchCurrent call on each of the two provider clients, with every answer of
\* the HTTP call
InitProviders == ProvInit /\ RaceIdle /\ CacheIdle /\ BuildIdle /\ SubsIdle /\ SideIdle

SpecProviders == InitProviders /\ [][ProvNext]_vars

\* the cron job alone on a table of confirmed subscriptions, tick after tick
InitPeriod == PeriodInit /\ UpdIdle /\ SmtpIdle /\ HttpIdle /\ RaceIdle /\ CacheIdle /\ BuildIdle /\ ProvIdle

SpecPeriod == InitPeriod /\ [][PeriodNext]_vars

\* one sendWeatherUpdates call over every batch and every outcome of the fetches
InitUpdates ==
    /\ UpdInit /\ TickIdle /\ SmtpIdle /\ HttpIdle
    /\ RaceIdle /\ CacheIdle /\ BuildIdle /\ SubsIdle /\ ProvIdle

SpecUpdates == InitUpdates /\ [][UpdNext]_vars

\* one SendBatch call over every batch, with every outcome of every call on the
\* connection
InitSmtp ==
    /\ SmtpInit /\ TickIdle /\ UpdIdle /\ HttpIdle
    /\ RaceIdle /\ CacheIdle /\ BuildIdle /\ SubsIdle /\ ProvIdle

SpecSmtp == InitSmtp /\ [][SmtpNext]_vars

\* the API server: requests on the three routes, one after another, from an
\* empty table
InitHttp ==
    /\ SubsInit /\ hresp = NoRequest
    /\ TickIdle /\ UpdIdle /\ SmtpIdle
    /\ RaceIdle /\ CacheIdle /\ BuildIdle /\ ProvIdle

SpecHttp == InitHttp /\ [][HttpNext]_vars

====
